---- MODULE Spec2Model ----
(***************************************************************************)
(* Model of the s3-consistency polling framework.                          *)
(*                                                                         *)
(* Spec          : one probe iteration, BaseWaiterStrategy.run_single_test  *)
(*                 as reached through SimulatedBaseWaiterStrategy, under   *)
(*                 the Baseline, Extended and Hybrid policies.             *)
(* SpecPoll      : one call of poll_until_match (sequential test).         *)
(* SpecSmartPoll : one call of smart_poll_until_match (the racer's poller).*)
(* SpecIdeal     : one probe iteration of BaselineStrategy in simulation   *)
(*                 mode under idealized timing.                            *)
(* SpecAdaptive  : one iteration of AdaptiveStrategy.run_single_test, from *)
(*                 any history window.                                     *)
(* SpecPolicy    : should_timeout and calculate_next_interval of the four  *)
(*                 strategies as functions of their arguments.             *)
(*                                                                         *)
(* The probe reads time.time(), modelled by `now` in whole seconds.  The   *)
(* standalone pollers read time.perf_counter(), modelled by `perf` in      *)
(* milliseconds.  A clock advances while a remote call is in flight (by a  *)
(* value of CallDurations), while the caller sleeps (by the interval plus  *)
(* a value of SleepOvershoots) and between two successive readings of the  *)
(* clock that the probe takes after a check (by a value of Ticks).         *)
(***************************************************************************)
EXTENDS Integers, Sequences, FiniteSets, TLC

VARIABLES
    pc,                 \* control point of run_single_test
    strategy,           \* concrete strategy class of the probe
    enable_simulation,  \* SimulatedBaseWaiterStrategy.enable_simulation
    test_id,            \* argument of run_single_test
    now,                \* the wall clock, time.time()
    put_start,          \* local put_start
    put_duration,       \* local put_duration
    propagation_start,  \* local propagation_start
    elapsed,            \* local elapsed (sampled at the top of the loop)
    interval,           \* local interval
    check_count,        \* local check_count
    api_calls,          \* local api_calls
    polling_history,    \* local polling_history
    get_start,          \* local get_start
    response,           \* outcome of the check in flight
    returned,           \* values returned by run_single_test (at most one)
    simulated_delay,    \* self._simulated_delay, Unset when the attribute is absent
    sim_start,          \* self._propagation_start, Unset when the attribute is absent
    put_calls,          \* PUT requests the store has received
    get_calls,          \* GET requests the store has received
    perf,               \* time.perf_counter(), in milliseconds
    p_pc,               \* control point of poll_until_match
    p_start,            \* poll_until_match: local start
    p_polls,            \* poll_until_match: local polls
    p_first_snapshot,   \* poll_until_match: local first_snapshot (<<>> is None)
    p_first_snapshot_age, \* poll_until_match: local first_snapshot_age
    p_response,         \* poll_until_match: outcome of the read in flight
    p_sleep,            \* poll_until_match: argument of the pending time.sleep
    p_result,           \* values returned by poll_until_match (at most one)
    s_pc,               \* control point of smart_poll_until_match
    s_start_time,       \* smart_poll_until_match: argument start_time
    s_attempt,          \* smart_poll_until_match: local attempt
    s_response,         \* smart_poll_until_match: outcome of the read in flight
    s_sleep_time,       \* smart_poll_until_match: local sleep_time
    s_result,           \* values returned by smart_poll_until_match (at most one)
    historical_times,   \* AdaptiveStrategy.historical_times
    recorded,           \* AdaptiveStrategy.run_single_test: lines 86-89 have run
    q_pc,               \* policy evaluation: "Ask" before, "Answered" after the calls
    q_strategy,         \* policy evaluation: the strategy asked
    q_elapsed,          \* policy evaluation: argument elapsed_time
    q_count,            \* policy evaluation: argument check_count
    q_timeout,          \* policy evaluation: value of should_timeout
    q_interval,         \* policy evaluation: value of calculate_next_interval
    v_pc,               \* _display_coverage_analysis: "Ask" before, "Shown" after the call
    v_timeout,          \* _display_coverage_analysis: local timeout
    v_out,              \* _display_coverage_analysis: what was printed
    c_pc,               \* control point of test_control_plane
    c_i,                \* test_control_plane: loop variable i
    c_prev_cfg,         \* test_control_plane: local prev_cfg (<<>> is None)
    c_rows,             \* test_control_plane: local rows
    r_pc,               \* control point of the main thread of test_control_plane_racer
    r_i,                \* test_control_plane_racer: loop variable i
    r_t0,               \* test_control_plane_racer: local t0
    r_stats,            \* test_control_plane_racer: local stats
    g_pc,               \* _generate_propagation_delay: "Ask" before, "Drawn" after the call
    g_rand,             \* _generate_propagation_delay: local rand, in units of 1/RandResolution
    g_delay,            \* _generate_propagation_delay: the value returned
    u_pc,               \* control point of run_test_suite
    u_i,                \* run_test_suite: loop variable i
    u_num_tests,        \* run_test_suite: argument num_tests
    results             \* self.results

probeVars == <<pc, strategy, enable_simulation, test_id, now, put_start, put_duration,
               propagation_start, elapsed, interval, check_count, api_calls,
               polling_history, get_start, response, returned, simulated_delay,
               sim_start, put_calls>>

pollVars == <<p_pc, p_start, p_polls, p_first_snapshot, p_first_snapshot_age,
              p_response, p_sleep, p_result>>

smartVars == <<s_pc, s_start_time, s_attempt, s_response, s_sleep_time, s_result>>

adaptVars == <<historical_times, recorded>>

policyVars == <<q_pc, q_strategy, q_elapsed, q_count, q_timeout, q_interval>>

covVars == <<v_pc, v_timeout, v_out>>

\* the components that the probe and the standalone pollers never touch
ctlVars == <<c_pc, c_i, c_prev_cfg, c_rows>>

racerVars == <<r_pc, r_i, r_t0, r_stats>>

genVars == <<g_pc, g_rand, g_delay>>

\* the components added after the racer
suiteVars == <<u_pc, u_i, u_num_tests, results>>

tailVars == <<genVars, suiteVars>>

extVars == <<covVars, ctlVars, racerVars, tailVars>>

vars == <<probeVars, get_calls, perf, pollVars, smartVars, adaptVars, policyVars, extVars>>

---------------------------------------------------------------------------
(* Bounds of the model *)

\* checks after which the model stops following an iteration
MaxChecks == 3
\* duration of a slow remote call, in seconds
SlowCall == 200
\* largest advance of the clock between two successive readings
TickMax == 1
\* largest test id handed to run_single_test
MaxTestId == 1
\* checks after which the model stops following an idealized iteration
IdealMaxChecks == 61
\* largest elapsed time a policy is asked about
MaxElapsed == 640
\* longest history a policy is asked with
MaxHistLen == 3
\* largest loop index of an iteration of test_control_plane
MaxIteration == 2
\* attempts after which the model stops following a poller that backs off
MaxBackoffAttempts == 6
\* largest timeout the coverage analysis is asked with, besides the strategies'
MaxCoverageTimeout == 320
\* values of random.random() are the multiples of 1/RandResolution below 1
RandResolution == 100
\* largest num_tests run_test_suite is called with
MaxNumTests == 2
\* checks after which the model stops following an iteration to its end
LiveMaxChecks == 200

\* how long a remote call (PUT, GET) may take
CallDurations == {0, SlowCall}
\* by how much time.sleep may overshoot the requested interval
SleepOvershoots == {0, SlowCall}
Ticks == 0..TickMax
TestIds == 0..MaxTestId

---------------------------------------------------------------------------
(* Program constants *)

BaselineInterval == 3
BaselineTimeout == 180
ExtendedInterval == 3
ExtendedTimeout == 600
HybridTimeout == 600
\* AdaptiveStrategy: min_timeout, max_timeout, history_size, bootstrap size
min_timeout == 300
max_timeout == 600
history_size == 20
bootstrap_size == 3
\* AdaptiveStrategy: the factor of stdev in the timeout
StdevFactor == 3

Strategies == {"Baseline", "Extended", "Hybrid"}

\* value of an attribute that is not set / a local not yet assigned
Unset == -1

\* delays the simulator may draw (bounds of the empirical buckets)
SimDelays == {0, 48, 312}

---------------------------------------------------------------------------
(* Policies *)

\* a Hybrid schedule whose steps include their upper ends
HybridInterval_InclusiveSteps(elapsed_time, cnt) ==
    IF elapsed_time <= 30 THEN 2
    ELSE IF elapsed_time <= 60 THEN 4
    ELSE IF elapsed_time <= 120 THEN 8
    ELSE 15

HybridInterval(elapsed_time, cnt) ==
    IF elapsed_time < 30 THEN 2
    ELSE IF elapsed_time < 60 THEN 4
    ELSE IF elapsed_time < 120 THEN 8
    ELSE 15

\* AdaptiveStrategy.calculate_next_interval
AdaptiveInterval(elapsed_time, cnt) ==
    IF elapsed_time < 30 THEN 2
    ELSE IF elapsed_time < 60 THEN 4
    ELSE IF elapsed_time < 120 THEN 8
    ELSE IF elapsed_time < 180 THEN 10
    ELSE 15

\* every strategy backing off as Hybrid does
calculate_next_interval_Hybrid(s, elapsed_time, cnt) == HybridInterval(elapsed_time, cnt)

calculate_next_interval(s, elapsed_time, cnt) ==
    CASE s = "Baseline" -> BaselineInterval
      [] s = "Extended" -> ExtendedInterval
      [] s = "Hybrid"   -> HybridInterval(elapsed_time, cnt)
      [] s = "Adaptive" -> AdaptiveInterval(elapsed_time, cnt)

RECURSIVE SumSeq(_)
\* sum(xs)
SumSeq(xs) == IF xs = <<>> THEN 0 ELSE xs[1] + SumSeq(Tail(xs))

RECURSIVE SumSqDevN(_, _, _)
\* sum((n*x - total)^2 for x in xs): n^2 times the sum of the squared
\* deviations from the mean total/n
SumSqDevN(xs, n, total) ==
    IF xs = <<>> THEN 0
    ELSE (n * xs[1] - total) * (n * xs[1] - total) + SumSqDevN(Tail(xs), n, total)

\* least integer >= a / b, for a >= 0 and b > 0
CeilDiv(a, b) == (a + b - 1) \div b

\* statistics.mean(xs) + factor * statistics.stdev(xs) <= e, for integer
\* samples, Len(xs) >= 2 and a number e, decided exactly:
\*   mean = total/n,  stdev = sqrt(sum((x - mean)^2) / (n - 1)),
\*   e - mean >= factor * stdev  <=>  e*n - total >= 0  and
\*   (e*n - total)^2 * (n - 1) >= factor^2 * sum((n*x - total)^2)
MeanPlusStdevsLe(xs, factor, e) ==
    LET n     == Len(xs)
        total == SumSeq(xs)
        a     == e * n - total
    IN  /\ a >= 0
        /\ a * a >= CeilDiv(factor * factor * SumSqDevN(xs, n, total), n - 1)

\* the same with 2*stdev, the factor the strategy used before
AdaptiveShouldTimeout_TwoStdev(hist, elapsed_time, cnt) ==
    IF Len(hist) < bootstrap_size
    THEN elapsed_time >= min_timeout
    ELSE /\ elapsed_time >= min_timeout
         /\ \/ elapsed_time >= max_timeout
            \/ MeanPlusStdevsLe(hist, 2, elapsed_time)

\* the bootstrap applies to fewer than 2 samples only
AdaptiveShouldTimeout_ShortBootstrap(hist, elapsed_time, cnt) ==
    IF Len(hist) < 2
    THEN elapsed_time >= min_timeout
    ELSE /\ elapsed_time >= min_timeout
         /\ \/ elapsed_time >= max_timeout
            \/ MeanPlusStdevsLe(hist, StdevFactor, elapsed_time)

\* AdaptiveStrategy.should_timeout on self.historical_times = hist:
\*   timeout = min_timeout                                  (bootstrap), or
\*   timeout = max(min_timeout, min(mean + 3*stdev, max_timeout));
\*   return elapsed_time >= timeout
\* where x >= max(a, min(t, b)) is x >= a and (x >= b or x >= t)
AdaptiveShouldTimeout(hist, elapsed_time, cnt) ==
    IF Len(hist) < bootstrap_size
    THEN elapsed_time >= min_timeout
    ELSE /\ elapsed_time >= min_timeout
         /\ \/ elapsed_time >= max_timeout
            \/ MeanPlusStdevsLe(hist, StdevFactor, elapsed_time)

\* a fixed policy that never gives up
FixedShouldTimeout_Never(timeout_seconds, elapsed_time, cnt) == FALSE

\* a fixed policy that times out one reading late
FixedShouldTimeout_Strict(timeout_seconds, elapsed_time, cnt) ==
    elapsed_time > timeout_seconds

\* BaselineStrategy / ExtendedTimeoutStrategy / HybridStrategy .should_timeout
FixedShouldTimeout(timeout_seconds, elapsed_time, cnt) ==
    elapsed_time >= timeout_seconds

should_timeout(s, elapsed_time, cnt) ==
    CASE s = "Baseline" -> FixedShouldTimeout(BaselineTimeout, elapsed_time, cnt)
      [] s = "Extended" -> FixedShouldTimeout(ExtendedTimeout, elapsed_time, cnt)
      [] s = "Hybrid"   -> FixedShouldTimeout(HybridTimeout, elapsed_time, cnt)
      [] s = "Adaptive" -> AdaptiveShouldTimeout(historical_times, elapsed_time, cnt)

---------------------------------------------------------------------------
(* Lifecycle configurations and the store's answers *)

\* f'{strategy_name}-rule-{test_id}'
RuleId(s, id) == <<s, "rule", id>>

generate_lifecycle_config(s, id) ==
    [Rules |-> <<[ID |-> RuleId(s, id), Status |-> "Enabled"]>>]

\* rule lists a GET may answer with while the probe of (s, id) polls
RuleLists(s, id) ==
    { <<[ID |-> RuleId(s, id), Status |-> "Enabled"]>>,
      <<[ID |-> RuleId(s, id - 1), Status |-> "Enabled"]>>,
      <<[ID |-> RuleId(s, id), Status |-> "Disabled"]>>,
      <<>>,
      <<[ID |-> RuleId(s, id), Status |-> "Enabled"],
        [ID |-> RuleId(s, id - 1), Status |-> "Enabled"]>> }

\* errors a GET may raise; only the first is the "not yet visible" class
ErrorCodes == {"NoSuchLifecycleConfiguration", "InternalError", "EndpointConnectionError"}
NotYetVisible == {"NoSuchLifecycleConfiguration"}

\* what a check can come back with: no call at all (the simulator answered),
\* a rule list, or an exception
NoCall == [kind |-> "nocall"]
StoreResponses(s, id) ==
    { [kind |-> "ok", rules |-> r] : r \in RuleLists(s, id) } \cup
    { [kind |-> "error", code |-> c] : c \in ErrorCodes }

NoResponse == [kind |-> "none"]

\* what a PUT can come back with: an acknowledgment or an exception
PutResponses ==
    { [kind |-> "ack"] } \cup { [kind |-> "error", code |-> c] : c \in {"InternalError"} }

RECURSIVE RulesMatch(_, _, _)
\* the zip loop of check_configuration_match, from index i on
RulesMatch(cur, exp, i) ==
    IF i > Len(cur) \/ i > Len(exp) THEN TRUE
    ELSE IF cur[i].ID # exp[i].ID THEN FALSE
    ELSE IF cur[i].Status # exp[i].Status THEN FALSE
    ELSE RulesMatch(cur, exp, i + 1)

\* what check_configuration_match does with an exception of the given code:
\* "false" = swallow and return False, "raise" = let it propagate
OnCheckError(code) ==
    IF code = "NoSuchLifecycleConfiguration" THEN "false" ELSE "false"

\* BaseWaiterStrategy.check_configuration_match applied to the store's answer:
\* "true", "false" or "raise"
check_configuration_match(resp, expected_config) ==
    CASE resp.kind = "ok" ->
            IF Len(resp.rules) # Len(expected_config.Rules) THEN "false"
            ELSE IF RulesMatch(resp.rules, expected_config.Rules, 1) THEN "true"
            ELSE "false"
      [] resp.kind = "error" -> OnCheckError(resp.code)
      [] resp.kind = "nocall" -> "false"

---------------------------------------------------------------------------
(* Results of run_single_test: Python dicts, modelled as records whose      *)
(* domain is the set of keys the dict holds                                 *)

PutFailedResult(id, code, t) ==
    [test_id |-> id, success |-> FALSE, error |-> <<"PUT failed", code>>,
     timestamp |-> t]

TimeoutResult_NoHistory(id, put_d, el, cnt, calls, hist, t) ==
    [test_id |-> id, success |-> FALSE, error |-> "Timeout", put_duration |-> put_d,
     propagation_time |-> el, check_count |-> cnt, api_calls |-> calls,
     polling_history |-> <<>>, timestamp |-> t]

TimeoutResult(id, put_d, el, cnt, calls, hist, t) ==
    [test_id |-> id, success |-> FALSE, error |-> "Timeout", put_duration |-> put_d,
     propagation_time |-> el, check_count |-> cnt, api_calls |-> calls,
     polling_history |-> hist, timestamp |-> t]

\* reports the elapsed time sampled at the top of the loop, before the sleep
SuccessResult_LoopTopElapsed(id, put_d, total_time, cnt, calls, hist, t) ==
    [test_id |-> id, success |-> TRUE, put_duration |-> put_d,
     propagation_time |-> elapsed, check_count |-> cnt, api_calls |-> calls,
     polling_history |-> hist, timestamp |-> t]

\* a match found at or after the Baseline timeout reported as a timeout
SuccessResult_LateIsTimeout(id, put_d, total_time, cnt, calls, hist, t) ==
    [test_id |-> id, success |-> total_time < BaselineTimeout, put_duration |-> put_d,
     propagation_time |-> total_time, check_count |-> cnt, api_calls |-> calls,
     polling_history |-> hist, timestamp |-> t]

SuccessResult(id, put_d, total_time, cnt, calls, hist, t) ==
    [test_id |-> id, success |-> TRUE, put_duration |-> put_d,
     propagation_time |-> total_time, check_count |-> cnt, api_calls |-> calls,
     polling_history |-> hist, timestamp |-> t]

\* an attempt recorded without its outcome
PollingAttempt_Unmatched(cnt, el, get_d, m) ==
    [attempt |-> cnt, elapsed_at_check |-> el, get_duration |-> get_d, matched |-> FALSE]

PollingAttempt(cnt, el, get_d, m) ==
    [attempt |-> cnt, elapsed_at_check |-> el, get_duration |-> get_d, matched |-> m]

RecordAttempt_Prepend(hist, cnt, el, get_d, m) ==
    <<PollingAttempt(cnt, el, get_d, m)>> \o hist

RecordAttempt(hist, cnt, el, get_d, m) ==
    Append(hist, PollingAttempt(cnt, el, get_d, m))

---------------------------------------------------------------------------
(* The probe: SimulatedBaseWaiterStrategy.run_single_test                   *)

Terminal == {"Matched", "TimedOut", "MutationFailed"}

\* the probe object after construction, before run_single_test is entered
ProbeInitOf(strategies) ==
    /\ pc = "Idle"
    /\ strategy \in strategies
    /\ enable_simulation \in BOOLEAN
    /\ test_id \in TestIds
    /\ now = 0
    /\ put_start = Unset
    /\ put_duration = Unset
    /\ propagation_start = Unset
    /\ elapsed = Unset
    /\ interval = Unset
    /\ check_count = Unset
    /\ api_calls = Unset
    /\ polling_history = <<>>
    /\ get_start = Unset
    /\ response = NoResponse
    /\ returned = <<>>
    \* an earlier iteration may have left the simulator's attributes set
    /\ \/ simulated_delay = Unset /\ sim_start = Unset
       \/ enable_simulation /\ simulated_delay \in SimDelays /\ sim_start = 0
    /\ put_calls = 0

ProbeInit == ProbeInitOf(Strategies)

\* an attribute that survives the reset at the start of run_single_test
DelAttr_Keep(v) == v

\* if hasattr(self, a): delattr(self, a)
DelAttr(v) == Unset

\* run_single_test is entered: the simulator's attributes are deleted and the
\* PUT is issued; put_responses is what the store may answer
StartTestOf(put_responses) ==
    /\ pc = "Idle"
    /\ simulated_delay' = DelAttr(simulated_delay)
    /\ sim_start' = DelAttr(sim_start)
    /\ put_start' = now
    /\ put_calls' = put_calls + 1
    /\ response' \in put_responses
    /\ pc' = "Mutating"
    /\ UNCHANGED <<strategy, enable_simulation, test_id, now, put_duration,
                   propagation_start, elapsed, interval, check_count, api_calls,
                   polling_history, get_start, returned, get_calls>>
    /\ UNCHANGED <<perf, pollVars, smartVars, adaptVars, policyVars, extVars>>

StartTest == StartTestOf(PutResponses)

\* control point reached when the PUT comes back: an exception ends the iteration
AfterPut_Swallow(resp) == "Polling"

AfterPut(resp) == IF resp.kind = "ack" THEN "Polling" ELSE "MutationFailed"

\* the PUT comes back
PutReturnOf(durations) ==
    /\ pc = "Mutating"
    /\ \E d \in durations :
        /\ now' = now + d
        /\ pc' = AfterPut(response)
        /\ IF pc' = "Polling"
           THEN /\ put_duration' = now' - put_start
                /\ propagation_start' = now'
                /\ check_count' = 0
                /\ api_calls' = 1
                /\ polling_history' = <<>>
                /\ returned' = returned
           ELSE /\ returned' = Append(returned, PutFailedResult(test_id, response.code, now'))
                /\ UNCHANGED <<put_duration, propagation_start, check_count,
                               api_calls, polling_history>>
    /\ response' = NoResponse
    /\ UNCHANGED <<strategy, enable_simulation, test_id, put_start, elapsed, interval,
                   get_start, simulated_delay, sim_start, put_calls, get_calls>>
    /\ UNCHANGED <<perf, pollVars, smartVars, adaptVars, policyVars, extVars>>

PutReturn == PutReturnOf(CallDurations)

\* a timeout that also fires while a check is in flight
Timeout_DuringCheck ==
    /\ pc \in {"Polling", "Checking"}
    /\ elapsed' = now - propagation_start
    /\ should_timeout(strategy, elapsed', check_count)
    /\ returned' = Append(returned,
           TimeoutResult(test_id, put_duration, elapsed', check_count, api_calls,
                         polling_history, now))
    /\ pc' = "TimedOut"
    /\ UNCHANGED <<strategy, enable_simulation, test_id, now, put_start, put_duration,
                   propagation_start, interval, check_count, api_calls,
                   polling_history, get_start, response, simulated_delay, sim_start,
                   put_calls, get_calls>>
    /\ UNCHANGED <<perf, pollVars, smartVars, adaptVars, policyVars, extVars>>

\* top of the loop, should_timeout is true
Timeout ==
    /\ pc = "Polling"
    /\ elapsed' = now - propagation_start
    /\ should_timeout(strategy, elapsed', check_count)
    /\ returned' = Append(returned,
           TimeoutResult(test_id, put_duration, elapsed', check_count, api_calls,
                         polling_history, now))
    /\ pc' = "TimedOut"
    /\ UNCHANGED <<strategy, enable_simulation, test_id, now, put_start, put_duration,
                   propagation_start, interval, check_count, api_calls,
                   polling_history, get_start, response, simulated_delay, sim_start,
                   put_calls, get_calls>>
    /\ UNCHANGED <<perf, pollVars, smartVars, adaptVars, policyVars, extVars>>

\* top of the loop, should_timeout is false: the probe goes to sleep
StartSleepOf(limit) ==
    /\ pc = "Polling"
    /\ check_count < limit
    /\ elapsed' = now - propagation_start
    /\ ~should_timeout(strategy, elapsed', check_count)
    /\ interval' = calculate_next_interval(strategy, elapsed', check_count)
    /\ pc' = "Sleeping"
    /\ UNCHANGED <<strategy, enable_simulation, test_id, now, put_start, put_duration,
                   propagation_start, check_count, api_calls, polling_history,
                   get_start, response, returned, simulated_delay, sim_start,
                   put_calls, get_calls>>
    /\ UNCHANGED <<perf, pollVars, smartVars, adaptVars, policyVars, extVars>>

StartSleep == StartSleepOf(MaxChecks)

\* a simulator whose delay runs from the acknowledgment of the PUT
SimReference_AtAck(t_check, t_ack) == t_ack

\* self._propagation_start = time.time(), in the first check of the iteration
SimReference(t_check, t_ack) == t_check

\* the sleep ends, the counters are incremented and the check is started:
\* SimulatedBaseWaiterStrategy.check_configuration_match up to the store call
StartCheckOf(overshoots, delays, responses) ==
    /\ pc = "Sleeping"
    /\ \E o \in overshoots : now' = now + interval + o
    /\ check_count' = check_count + 1
    /\ api_calls' = api_calls + 1
    /\ get_start' = now'
    /\ IF enable_simulation
       THEN /\ IF simulated_delay = Unset
               THEN /\ simulated_delay' \in delays
                    /\ sim_start' = SimReference(now', propagation_start)
               ELSE UNCHANGED <<simulated_delay, sim_start>>
            /\ IF now' - sim_start' >= simulated_delay'
               THEN /\ response' \in responses
                    /\ get_calls' = get_calls + 1
               ELSE /\ response' = NoCall
                    /\ get_calls' = get_calls
       ELSE /\ response' \in responses
            /\ get_calls' = get_calls + 1
            /\ UNCHANGED <<simulated_delay, sim_start>>
    /\ pc' = "Checking"
    /\ UNCHANGED <<strategy, enable_simulation, test_id, put_start, put_duration,
                   propagation_start, elapsed, interval, polling_history, returned,
                   put_calls>>
    /\ UNCHANGED <<perf, pollVars, smartVars, adaptVars, policyVars, extVars>>

StartCheck == StartCheckOf(SleepOvershoots, SimDelays, StoreResponses(strategy, test_id))

\* control point reached after a check that did not raise
AfterCheck_KeepPolling(m) == "Polling"

AfterCheck(m) == IF m THEN "Matched" ELSE "Polling"

\* the check comes back: the attempt is recorded and the outcome classified
CheckReturnOf(durations, ticks) ==
    /\ pc = "Checking"
    /\ \E d \in (IF response.kind = "nocall" THEN {0} ELSE durations), t \in ticks :
        LET outcome == check_configuration_match(response,
                            generate_lifecycle_config(strategy, test_id))
            get_end == now + d
            match   == outcome = "true"
            hist    == RecordAttempt(polling_history, check_count,
                                     get_end - propagation_start, get_end - get_start,
                                     match)
        IN  IF outcome = "raise"
            THEN \* the exception leaves run_single_test
                 /\ now' = get_end
                 /\ pc' = "Aborted"
                 /\ UNCHANGED <<polling_history, returned>>
            ELSE /\ polling_history' = hist
                 /\ pc' = AfterCheck(match)
                 /\ IF match
                    THEN /\ now' = get_end + t
                         /\ returned' = Append(returned,
                                SuccessResult(test_id, put_duration,
                                              now' - propagation_start, check_count,
                                              api_calls, hist, now'))
                    ELSE /\ now' = get_end
                         /\ returned' = returned
    /\ response' = NoResponse
    /\ UNCHANGED <<strategy, enable_simulation, test_id, put_start, put_duration,
                   propagation_start, elapsed, interval, check_count, api_calls,
                   get_start, simulated_delay, sim_start, put_calls, get_calls>>
    /\ UNCHANGED <<perf, pollVars, smartVars, adaptVars, policyVars, extVars>>

CheckReturn == CheckReturnOf(CallDurations, Ticks)

---------------------------------------------------------------------------
(* The probe under idealized timing: each sleep lasts exactly the interval,  *)
(* remote calls take no time, the PUT is acknowledged and the store holds    *)
(* the expected configuration.                                               *)

\* delays the simulator is made to draw
IdealDelays == {48, 200}

\* what the store answers: the configuration that was put
IdealResponses(s, id) ==
    { [kind |-> "ok", rules |-> generate_lifecycle_config(s, id).Rules] }

IdealStartTest == StartTestOf({ [kind |-> "ack"] })

IdealPutReturn == PutReturnOf({0})

IdealStartSleep == StartSleepOf(IdealMaxChecks)

IdealStartCheck == StartCheckOf({0}, IdealDelays, IdealResponses(strategy, test_id))

IdealCheckReturn == CheckReturnOf({0}, {0})

---------------------------------------------------------------------------
(* AdaptiveStrategy.run_single_test: the history window                     *)

\* a record step that takes every result that carries a propagation time
ShouldRecord_Finished(result) == "propagation_time" \in DOMAIN result

\* if result['success']
ShouldRecord(result) == result.success

\* a window that, once full, refuses the new sample
RecordSample_KeepOldest(hist, sample) ==
    IF Len(hist) >= history_size THEN hist ELSE Append(hist, sample)

\* historical_times.append(sample); if len > history_size: pop(0)
RecordSample(hist, sample) ==
    LET appended == Append(hist, sample)
    IN  IF Len(appended) > history_size THEN Tail(appended) ELSE appended

\* super().run_single_test has returned a result: lines 86-89
AdaptiveRecord ==
    /\ pc \in Terminal
    /\ ~recorded
    /\ recorded' = TRUE
    /\ historical_times' =
           IF ShouldRecord(returned[Len(returned)])
           THEN RecordSample(historical_times, returned[Len(returned)].propagation_time)
           ELSE historical_times
    /\ UNCHANGED <<probeVars, get_calls, perf, pollVars, smartVars, policyVars, extVars>>

\* windows an Adaptive probe may hold when an iteration starts: empty, three
\* samples, one short of full, full
FullWindow == [i \in 1..history_size |-> 40 + i]
AdaptiveWindows ==
    { <<>>, <<300, 300, 330>>, SubSeq(FullWindow, 1, history_size - 1), FullWindow }

AdaptIdle ==
    /\ historical_times = <<>>
    /\ recorded = FALSE

---------------------------------------------------------------------------
(* The policies as functions: should_timeout and calculate_next_interval    *)

AllStrategies == Strategies \cup {"Adaptive"}

\* samples a history is built from
HistValues == {40, 50, 60, 300, 330}

RECURSIVE SeqsUpTo(_, _)
\* the sequences over S of length at most n
SeqsUpTo(S, n) ==
    IF n = 0 THEN { <<>> }
    ELSE LET shorter == SeqsUpTo(S, n - 1)
         IN  shorter \cup { Append(h, x) : h \in { g \in shorter : Len(g) = n - 1 }, x \in S }

PolicyHistories == SeqsUpTo(HistValues, MaxHistLen)

PolicyIdle ==
    /\ q_pc = "Idle"
    /\ q_strategy = "Baseline"
    /\ q_elapsed = 0
    /\ q_count = 0
    /\ q_timeout = FALSE
    /\ q_interval = Unset

\* should_timeout(elapsed_time, check_count) is called
EvalShouldTimeout ==
    /\ q_pc = "Ask"
    /\ q_timeout' = should_timeout(q_strategy, q_elapsed, q_count)
    /\ q_pc' = "AskInterval"
    /\ UNCHANGED <<q_strategy, q_elapsed, q_count, q_interval>>
    /\ UNCHANGED <<probeVars, get_calls, perf, pollVars, smartVars, adaptVars, extVars>>

\* calculate_next_interval(elapsed_time, check_count) is called
EvalNextInterval ==
    /\ q_pc = "AskInterval"
    /\ q_interval' = calculate_next_interval(q_strategy, q_elapsed, q_count)
    /\ q_pc' = "Answered"
    /\ UNCHANGED <<q_strategy, q_elapsed, q_count, q_timeout>>
    /\ UNCHANGED <<probeVars, get_calls, perf, pollVars, smartVars, adaptVars, extVars>>

---------------------------------------------------------------------------
(* The standalone pollers                                                   *)

\* lifecycle_config(days, rule_id) of the two test scripts
lifecycle_config(days, rule_id) ==
    [Rules |-> <<[ID |-> rule_id, Status |-> "Enabled", Filter |-> [Prefix |-> ""],
                  Expiration |-> [Days |-> days]]>>]

\* the configuration the poller is waiting for, and the one put before it
NewConfig == lifecycle_config(31, "rule-new")
PrevConfig == lifecycle_config(30, "rule-prev")

\* configurations a GET may answer with
Snapshots == {NewConfig, PrevConfig, lifecycle_config(30, "rule-new")}

\* error codes a botocore ClientError may carry
ClientErrorCodes == {"NoSuchLifecycleConfiguration", "NoSuchBucket", "AccessDenied",
                     "InternalError"}
\* the codes the core treats as expected-absent
ExpectedAbsentCodes == {"NoSuchLifecycleConfiguration", "NoSuchBucket", "AccessDenied"}

\* what a read of the standalone pollers can come back with: a configuration,
\* a ClientError, or an exception that is no ClientError
ReadResponses ==
    { [kind |-> "ok", config |-> c] : c \in Snapshots } \cup
    { [kind |-> "error", class |-> "ClientError", code |-> c] : c \in ClientErrorCodes } \cup
    { [kind |-> "error", class |-> "EndpointConnectionError", code |-> "none"] }

\* json.dumps(a, sort_keys=True) == json.dumps(b, sort_keys=True): the two
\* dicts hold the same keys with the same values
equal_lifecycle(a, b) ==
    /\ DOMAIN a = DOMAIN b
    /\ \A k \in DOMAIN a : a[k] = b[k]

EARLY_DENSE_SECONDS == 30
LATE_INTERVAL_SECONDS == 3
TIMEOUT_SECONDS == 600
\* milliseconds in a second
Ms == 1000

PollIdle ==
    /\ p_pc = "Idle"
    /\ p_start = Unset
    /\ p_polls = Unset
    /\ p_first_snapshot = <<>>
    /\ p_first_snapshot_age = Unset
    /\ p_response = NoResponse
    /\ p_sleep = Unset
    /\ p_result = <<>>

\* poll_until_match is entered
PollStart ==
    /\ p_pc = "Idle"
    /\ p_start' = perf
    /\ p_polls' = 0
    /\ p_first_snapshot' = <<>>
    /\ p_first_snapshot_age' = Unset
    /\ p_pc' = "LoopTop"
    /\ UNCHANGED <<perf, p_response, p_sleep, p_result, get_calls, probeVars, smartVars,
                   adaptVars, policyVars, extVars>>

\* top of the loop, elapsed > timeout_s: the poller gives up
PollTimeout ==
    /\ p_pc = "LoopTop"
    /\ perf - p_start > TIMEOUT_SECONDS * Ms
    /\ p_result' = Append(p_result,
          [matched |-> FALSE, elapsed |-> perf - p_start, polls |-> p_polls,
           first_read |-> p_first_snapshot, first_read_elapsed |-> p_first_snapshot_age])
    /\ p_pc' = "Returned"
    /\ UNCHANGED <<perf, p_start, p_polls, p_first_snapshot, p_first_snapshot_age,
                   p_response, p_sleep, get_calls, probeVars, smartVars, adaptVars, policyVars, extVars>>

\* top of the loop, no timeout: get_lifecycle is called
PollReadOf(responses) ==
    /\ p_pc = "LoopTop"
    /\ get_calls < MaxChecks
    /\ ~(perf - p_start > TIMEOUT_SECONDS * Ms)
    /\ p_response' \in responses
    /\ get_calls' = get_calls + 1
    /\ p_pc' = "Reading"
    /\ UNCHANGED <<perf, p_start, p_polls, p_first_snapshot, p_first_snapshot_age,
                   p_sleep, p_result, probeVars, smartVars, adaptVars, policyVars, extVars>>

PollRead == PollReadOf(ReadResponses)

\* what the except clause of poll_until_match does with an exception:
\* "swallow" or "raise"
PollOnError(resp) ==
    IF resp.class # "ClientError" THEN "raise"
    ELSE IF resp.code \notin {"NoSuchLifecycleConfiguration", "NoSuchBucket", "AccessDenied"}
         THEN "raise"
    ELSE "swallow"

\* sleep cadence of poll_until_match
PollCadence(current_age) ==
    IF current_age < EARLY_DENSE_SECONDS * Ms THEN 1 * Ms ELSE LATE_INTERVAL_SECONDS * Ms

\* get_lifecycle comes back
PollReadReturnOf(expected_config) ==
    /\ p_pc = "Reading"
    /\ \E d \in CallDurations :
        /\ perf' = perf + d * Ms
        /\ IF p_response.kind = "ok"
           THEN LET observed_age == perf' - p_start
                    first == IF p_first_snapshot = <<>> THEN <<p_response.config>>
                             ELSE p_first_snapshot
                    first_age == IF p_first_snapshot = <<>> THEN observed_age
                                 ELSE p_first_snapshot_age
                IN  /\ p_polls' = p_polls + 1
                    /\ p_first_snapshot' = first
                    /\ p_first_snapshot_age' = first_age
                    /\ IF equal_lifecycle(p_response.config, expected_config)
                       THEN /\ p_result' = Append(p_result,
                                  [matched |-> TRUE, elapsed |-> observed_age,
                                   polls |-> p_polls', first_read |-> first,
                                   first_read_elapsed |-> first_age])
                            /\ p_pc' = "Returned"
                            /\ p_sleep' = p_sleep
                       ELSE /\ p_sleep' = PollCadence(perf' - p_start)
                            /\ p_pc' = "Sleeping"
                            /\ p_result' = p_result
           ELSE /\ UNCHANGED <<p_polls, p_first_snapshot, p_first_snapshot_age, p_result>>
                /\ IF PollOnError(p_response) = "raise"
                   THEN p_pc' = "Raised" /\ p_sleep' = p_sleep
                   ELSE p_pc' = "Sleeping" /\ p_sleep' = PollCadence(perf' - p_start)
    /\ p_response' = NoResponse
    /\ UNCHANGED <<p_start, get_calls, probeVars, smartVars, adaptVars, policyVars, extVars>>

PollReadReturn == PollReadReturnOf(NewConfig)

\* time.sleep comes back
PollWake ==
    /\ p_pc = "Sleeping"
    /\ \E o \in SleepOvershoots : perf' = perf + p_sleep + o * Ms
    /\ p_pc' = "LoopTop"
    /\ UNCHANGED <<p_start, p_polls, p_first_snapshot, p_first_snapshot_age,
                   p_response, p_sleep, p_result, get_calls, probeVars, smartVars, adaptVars, policyVars, extVars>>

---------------------------------------------------------------------------
(* smart_poll_until_match                                                   *)

\* base_sleep and max_sleep, in milliseconds
BaseSleepMs == 500
MaxSleepMs == 10000
SmartTimeoutSeconds == 600

Min(a, b) == IF a < b THEN a ELSE b

RECURSIVE Pow2(_)
Pow2(n) == IF n = 0 THEN 1 ELSE 2 * Pow2(n - 1)

\* a backoff without the cap
SleepCap_Uncapped(attempt) == BaseSleepMs * Pow2(attempt)

\* upper end of the jitter range after the given attempt
SleepCap(attempt) == Min(MaxSleepMs, BaseSleepMs * Pow2(attempt))

\* values random.uniform(0, cap) is sampled at
JitterDraws(cap) == {0, cap \div 2, cap}

SmartIdle ==
    /\ s_pc = "Idle"
    /\ s_start_time = Unset
    /\ s_attempt = Unset
    /\ s_response = NoResponse
    /\ s_sleep_time = Unset
    /\ s_result = <<>>

\* smart_poll_until_match is entered with the given start_time
SmartStartOf(start_time) ==
    /\ s_pc = "Idle"
    /\ s_start_time' = start_time
    /\ s_attempt' = 0
    /\ s_pc' = "LoopTest"
    /\ UNCHANGED <<perf, s_response, s_sleep_time, s_result, get_calls, probeVars,
                   pollVars, adaptVars, policyVars, extVars>>

\* the standalone call: start_time is the time of the call
SmartStart == SmartStartOf(perf)

\* the loop test fails: the poller gives up
SmartTimeout ==
    /\ s_pc = "LoopTest"
    /\ ~(perf - s_start_time < SmartTimeoutSeconds * Ms)
    /\ s_result' = Append(s_result,
          [found |-> FALSE, attempts |-> s_attempt, detected_at |-> Unset])
    /\ s_pc' = "Returned"
    /\ UNCHANGED <<perf, s_start_time, s_attempt, s_response, s_sleep_time, get_calls,
                   probeVars, pollVars, adaptVars, policyVars, extVars>>

\* the loop test holds: the attempt is counted and the read is issued; the
\* model follows the call for limit attempts
SmartReadOf(limit, responses) ==
    /\ s_pc = "LoopTest"
    /\ s_attempt < limit
    /\ perf - s_start_time < SmartTimeoutSeconds * Ms
    /\ s_attempt' = s_attempt + 1
    /\ s_response' \in responses
    /\ get_calls' = get_calls + 1
    /\ s_pc' = "Reading"
    /\ UNCHANGED <<perf, s_start_time, s_sleep_time, s_result, probeVars, pollVars,
                   adaptVars, policyVars, extVars>>

SmartRead == SmartReadOf(MaxChecks, ReadResponses)

\* what the except clause of smart_poll_until_match does with an exception
SmartOnError(resp) ==
    IF resp.class = "ClientError" THEN "swallow" ELSE "raise"

\* a poller that takes any configuration with a rule for the new one
RuleIdPresent_AnyRule(rules, expected_rule_id) == Len(rules) > 0

\* any(r["ID"] == expected_rule_id for r in rules)
RuleIdPresent(rules, expected_rule_id) ==
    \E k \in 1..Len(rules) : rules[k].ID = expected_rule_id

\* the read comes back
SmartReadReturnOf(durations, expected_rule_id) ==
    /\ s_pc = "Reading"
    /\ \E d \in durations :
        /\ perf' = perf + d * Ms
        /\ IF /\ s_response.kind = "ok"
              /\ RuleIdPresent(s_response.config.Rules, expected_rule_id)
           THEN /\ s_result' = Append(s_result,
                      [found |-> TRUE, attempts |-> s_attempt, detected_at |-> perf'])
                /\ s_pc' = "Returned"
                /\ s_sleep_time' = s_sleep_time
           ELSE IF s_response.kind = "error" /\ SmartOnError(s_response) = "raise"
           THEN /\ s_pc' = "Raised"
                /\ UNCHANGED <<s_result, s_sleep_time>>
           ELSE /\ s_sleep_time' \in JitterDraws(SleepCap(s_attempt))
                /\ s_pc' = "Sleeping"
                /\ s_result' = s_result
    /\ s_response' = NoResponse
    /\ UNCHANGED <<s_start_time, s_attempt, get_calls, probeVars, pollVars,
                   adaptVars, policyVars, extVars>>

SmartReadReturn == SmartReadReturnOf(CallDurations, NewConfig.Rules[1].ID)

\* time.sleep comes back
SmartWakeOf(overshoots) ==
    /\ s_pc = "Sleeping"
    /\ \E o \in overshoots : perf' = perf + s_sleep_time + o * Ms
    /\ s_pc' = "LoopTest"
    /\ UNCHANGED <<s_start_time, s_attempt, s_response, s_sleep_time, s_result,
                   get_calls, probeVars, pollVars, adaptVars, policyVars, extVars>>

SmartWake == SmartWakeOf(SleepOvershoots)

---------------------------------------------------------------------------
(* smart_poll_until_match against a store that does not show the rule: the  *)
(* sequence of sleeps                                                       *)

\* what the store answers while the rule is not visible
AbsentResponses ==
    { [kind |-> "ok", config |-> PrevConfig],
      [kind |-> "error", class |-> "ClientError", code |-> "NoSuchLifecycleConfiguration"] }

BackoffRead == SmartReadOf(MaxBackoffAttempts, AbsentResponses)

BackoffReadReturn == SmartReadReturnOf({0}, NewConfig.Rules[1].ID)

BackoffWake == SmartWakeOf(SleepOvershoots)

---------------------------------------------------------------------------
(* BaseWaiterStrategy._display_coverage_analysis                            *)

\* sorted(distribution.items(), key=lambda x: x[1])
SortedDistribution ==
    << [percentile |-> "P50", time_value |-> 48],
       [percentile |-> "P75", time_value |-> 82],
       [percentile |-> "P85", time_value |-> 120],
       [percentile |-> "P90", time_value |-> 142],
       [percentile |-> "P95", time_value |-> 156],
       [percentile |-> "P99", time_value |-> 234],
       [percentile |-> "Max", time_value |-> 312] >>

\* estimated_success_rate assigned for a percentile, in tenths of a percent
SuccessRateOf(percentile) ==
    CASE percentile = "P50" -> 500
      [] percentile = "P75" -> 750
      [] percentile = "P85" -> 850
      [] percentile = "P90" -> 900
      [] percentile = "P95" -> 950
      [] percentile = "P99" -> 990
      [] percentile = "Max" -> 999

\* coverage_percentile = None, estimated_success_rate = None
NoCoverage == [coverage_percentile |-> "None", estimated_success_rate |-> Unset]

RECURSIVE CoverageScan(_, _, _)
\* the for loop from entry i on, with the two locals in acc
CoverageScan(timeout, i, acc) ==
    IF i > Len(SortedDistribution) THEN acc
    ELSE CoverageScan(timeout, i + 1,
             IF timeout >= SortedDistribution[i].time_value
             THEN [coverage_percentile |-> SortedDistribution[i].percentile,
                   estimated_success_rate |->
                       SuccessRateOf(SortedDistribution[i].percentile)]
             ELSE acc)

\* a warning also for an estimate of exactly 95%
LowCoverage_Inclusive(estimated_success_rate) == estimated_success_rate <= 950

\* if estimated_success_rate < 95.0
LowCoverage(estimated_success_rate) == estimated_success_rate < 950

\* the lines printed from "Coverage:" on
CoverageReport(timeout) ==
    LET found == CoverageScan(timeout, 1, NoCoverage)
    IN  IF found.coverage_percentile # "None"
        THEN [coverage |-> found.coverage_percentile,
              expected_success |-> found.estimated_success_rate,
              expected_failure |-> 1000 - found.estimated_success_rate,
              warning |-> LowCoverage(found.estimated_success_rate)]
        ELSE [coverage |-> "Below P50", warning |-> TRUE]

\* timeout = getattr(self, 'timeout_seconds', None), else max_timeout
StrategyTimeout(s) ==
    CASE s = "Baseline" -> BaselineTimeout
      [] s = "Extended" -> ExtendedTimeout
      [] s = "Hybrid"   -> HybridTimeout
      [] s = "Adaptive" -> max_timeout

\* timeouts the analysis is asked with
CoverageTimeouts == (0..MaxCoverageTimeout) \cup { StrategyTimeout(s) : s \in AllStrategies }

CovIdle ==
    /\ v_pc = "Idle"
    /\ v_timeout = Unset
    /\ v_out = <<>>

\* _display_coverage_analysis runs
DisplayCoverage ==
    /\ v_pc = "Ask"
    /\ v_out' = <<CoverageReport(v_timeout)>>
    /\ v_pc' = "Shown"
    /\ UNCHANGED <<v_timeout, ctlVars, racerVars, tailVars, probeVars, get_calls, perf, pollVars, smartVars,
                   adaptVars, policyVars>>

---------------------------------------------------------------------------
(* test_control_plane: one iteration of the loop                            *)

\* time.sleep(10) at the end of an iteration
IterationPauseSeconds == 10

\* cfg of iteration i, the rule id being a fresh uuid
ControlPlaneCfg(i) == lifecycle_config(30 + (i % 7), <<"expire", i>>)

\* prev_cfg when iteration i starts
PrevCfgAt(i) == IF i = 0 THEN <<>> ELSE <<ControlPlaneCfg(i - 1)>>

\* what a read can come back with during iteration i: the configuration of
\* this iteration or of one of the two before it, or an error
ControlPlaneResponses(i) ==
    { [kind |-> "ok", config |-> ControlPlaneCfg(j)] : j \in { k \in (i - 2)..i : k >= 0 } } \cup
    { [kind |-> "error", class |-> "ClientError", code |-> c] : c \in ClientErrorCodes } \cup
    { [kind |-> "error", class |-> "EndpointConnectionError", code |-> "none"] }

\* a stale flag raised for every first read that is not the new configuration
FirstIsPrev_AnyMismatch(first_read, prev_cfg, cfg) ==
    first_read # <<>> /\ ~equal_lifecycle(first_read[1], cfg)

\* bool(first_read and prev_cfg and equal_lifecycle(first_read, prev_cfg))
FirstIsPrev(first_read, prev_cfg, cfg) ==
    /\ first_read # <<>>
    /\ prev_cfg # <<>>
    /\ equal_lifecycle(first_read[1], prev_cfg[1])

\* bool(first_read and equal_lifecycle(first_read, cfg))
FirstMatches(first_read, cfg) ==
    first_read # <<>> /\ equal_lifecycle(first_read[1], cfg)

\* first_read["Rules"][0].get("ID") when there is a first read with rules
FirstReadRule(first_read) ==
    IF first_read # <<>> /\ first_read[1].Rules # <<>>
    THEN <<first_read[1].Rules[1].ID>>
    ELSE <<>>

\* the row appended for iteration i from the poller's result
ControlPlaneRow(i, result, prev_cfg, cfg) ==
    [iteration |-> i,
     matched |-> result.matched,
     propagation_sec |-> result.elapsed,
     polls |-> result.polls,
     timeout_used |-> TIMEOUT_SECONDS,
     first_read_sec |-> result.first_read_elapsed,
     first_read_rule |-> FirstReadRule(result.first_read),
     first_read_matched |-> FirstMatches(result.first_read, cfg),
     first_read_stale |-> FirstIsPrev(result.first_read, prev_cfg, cfg)]

CtlIdle ==
    /\ c_pc = "Idle"
    /\ c_i = 0
    /\ c_prev_cfg = <<>>
    /\ c_rows = <<>>

\* the iteration builds cfg and calls put_lifecycle
CtlPut ==
    /\ c_pc = "Start"
    /\ c_pc' = "Putting"
    /\ UNCHANGED <<c_i, c_prev_cfg, c_rows, covVars, racerVars, tailVars, probeVars, get_calls, perf, pollVars,
                   smartVars, adaptVars, policyVars>>

\* put_lifecycle comes back: with an exception the test ends
CtlPutReturn ==
    /\ c_pc = "Putting"
    /\ \E d \in CallDurations, resp \in PutResponses :
        /\ perf' = perf + d * Ms
        /\ c_pc' = IF resp.kind = "ack" THEN "Polling" ELSE "Raised"
    /\ UNCHANGED <<c_i, c_prev_cfg, c_rows, covVars, racerVars, tailVars, probeVars, get_calls, pollVars,
                   smartVars, adaptVars, policyVars>>

\* poll_until_match(bucket, cfg, TIMEOUT_SECONDS)
CtlPollStart == c_pc = "Polling" /\ PollStart

CtlPollTimeout == c_pc = "Polling" /\ PollTimeout

CtlPollRead == c_pc = "Polling" /\ PollReadOf(ControlPlaneResponses(c_i))

CtlPollReadReturn == c_pc = "Polling" /\ PollReadReturnOf(ControlPlaneCfg(c_i))

CtlPollWake == c_pc = "Polling" /\ PollWake

\* poll_until_match has returned: lines 184-204
CtlRecord ==
    /\ c_pc = "Polling"
    /\ p_pc = "Returned"
    /\ c_rows' = Append(c_rows,
           ControlPlaneRow(c_i, p_result[Len(p_result)], c_prev_cfg, ControlPlaneCfg(c_i)))
    /\ c_prev_cfg' = <<ControlPlaneCfg(c_i)>>
    /\ perf' = perf + IterationPauseSeconds * Ms
    /\ c_pc' = "Recorded"
    /\ UNCHANGED <<c_i, covVars, racerVars, tailVars, probeVars, get_calls, pollVars, smartVars, adaptVars,
                   policyVars>>

---------------------------------------------------------------------------
(* test_control_plane_racer: the main thread writes while a worker thread   *)
(* runs smart_poll_until_match                                              *)

CONTROL_PLANE_ITERS == 100

\* time.sleep(0.1) between the submit and the PUT, in milliseconds
LeadSleepMs == 100

\* rule_id of iteration i (a fresh uuid per iteration)
RacerRuleId(i) == <<"rule", i>>

\* config of iteration i
RacerConfig(i) == lifecycle_config(30, RacerRuleId(i))

\* main-thread positions at which the PUT of the iteration has been sent
PutSentAt == {"Putting", "Waiting", "PutFailed", "Collected"}

\* main-thread positions at which the poller has been submitted to the executor
SubmittedAt == {"LeadSleep", "Putting", "Waiting", "PutFailed"}

\* what the store answers to the poller of iteration i: an older
\* configuration, the configuration of the iteration once its PUT has been
\* sent, or an error
RacerResponses(i, main_pc) ==
    { [kind |-> "ok", config |-> RacerConfig(j)] : j \in { k \in (i - 2)..(i - 1) : k >= 0 } } \cup
    { [kind |-> "ok", config |-> RacerConfig(j)] : j \in { k \in {i} : main_pc \in PutSentAt } } \cup
    { [kind |-> "error", class |-> "ClientError", code |-> c] : c \in ClientErrorCodes } \cup
    { [kind |-> "error", class |-> "EndpointConnectionError", code |-> "none"] }

\* a delay is computed for every result
PropagationDelay_Unconditional(result, t0) == <<result.detected_at - t0>>

\* propagation_delay: detected_at - t0 when found, None (<<>>) otherwise
PropagationDelay(result, t0) ==
    IF result.found THEN <<result.detected_at - t0>> ELSE <<>>

\* the row appended to stats
RacerRow(i, result, t0) ==
    [iteration |-> i,
     found |-> result.found,
     delay_sec |-> PropagationDelay(result, t0),
     api_calls |-> result.attempts]

\* the main thread does not wait for the future
FutureDone_NoWait(poller_pc) == TRUE

\* poller_future.result() and the exit of the with block return once the
\* call of the worker thread has ended
FutureDone(poller_pc) == poller_pc \in {"Returned", "Raised"}

RacerIdle ==
    /\ r_pc = "Idle"
    /\ r_i = 0
    /\ r_t0 = Unset
    /\ r_stats = <<>>

\* the iteration starts: t0 is taken and the poller is submitted; the model
\* follows the iteration it starts in, up to the start of the next one
RacerBegin ==
    /\ r_pc = "Start"
    /\ r_stats = <<>>
    /\ r_t0' = perf
    /\ r_pc' = "LeadSleep"
    /\ UNCHANGED <<r_i, r_stats, covVars, ctlVars, tailVars, probeVars, get_calls, perf, pollVars,
                   smartVars, adaptVars, policyVars>>

\* a poller that measures its timeout from its own first step
PollerStartTime_Own(t0, entered_at) == entered_at

\* the start_time argument handed to executor.submit
PollerStartTime(t0, entered_at) == t0

\* the worker thread enters smart_poll_until_match(bucket, rule_id, t0)
RacerPollerStart == r_pc \in SubmittedAt /\ SmartStartOf(PollerStartTime(r_t0, perf))

RacerPollerTimeout == r_pc \in SubmittedAt /\ SmartTimeout

RacerPollerRead ==
    r_pc \in SubmittedAt /\ SmartReadOf(MaxChecks, RacerResponses(r_i, r_pc))

RacerPollerReadReturn ==
    r_pc \in SubmittedAt /\ SmartReadReturnOf(CallDurations, RacerRuleId(r_i))

RacerPollerWake == r_pc \in SubmittedAt /\ SmartWakeOf(SleepOvershoots)

\* time.sleep(0.1) comes back and the PUT is sent
RacerLeadWake ==
    /\ r_pc = "LeadSleep"
    /\ \E o \in SleepOvershoots : perf' = perf + LeadSleepMs + o * Ms
    /\ r_pc' = "Putting"
    /\ UNCHANGED <<r_i, r_t0, r_stats, covVars, ctlVars, tailVars, probeVars, get_calls, pollVars,
                   smartVars, adaptVars, policyVars>>

\* put_bucket_lifecycle_configuration comes back
RacerPutReturn ==
    /\ r_pc = "Putting"
    /\ \E d \in CallDurations, resp \in PutResponses :
        /\ perf' = perf + d * Ms
        /\ r_pc' = IF resp.kind = "ack" THEN "Waiting" ELSE "PutFailed"
    /\ UNCHANGED <<r_i, r_t0, r_stats, covVars, ctlVars, tailVars, probeVars, get_calls, pollVars,
                   smartVars, adaptVars, policyVars>>

\* poller_future.result() comes back, with the exception of the poller if
\* it raised one
RacerCollect ==
    /\ r_pc = "Waiting"
    /\ FutureDone(s_pc)
    /\ r_pc' = IF s_pc = "Raised" THEN "Raised" ELSE "Collected"
    /\ UNCHANGED <<r_i, r_t0, r_stats, covVars, ctlVars, tailVars, probeVars, get_calls, perf,
                   pollVars, smartVars, adaptVars, policyVars>>

\* the PUT raised: the with block is left once the poller has ended, and the
\* exception ends the test
RacerUnwind ==
    /\ r_pc = "PutFailed"
    /\ FutureDone(s_pc)
    /\ r_pc' = "Raised"
    /\ UNCHANGED <<r_i, r_t0, r_stats, covVars, ctlVars, tailVars, probeVars, get_calls, perf,
                   pollVars, smartVars, adaptVars, policyVars>>

\* lines 173-183: the row is appended and the loop goes on; the future of
\* the iteration is dropped
RacerRecord ==
    /\ r_pc = "Collected"
    /\ r_stats' = Append(r_stats, RacerRow(r_i, s_result[Len(s_result)], r_t0))
    /\ r_i' = r_i + 1
    /\ r_pc' = IF r_i + 1 < CONTROL_PLANE_ITERS THEN "Start" ELSE "Done"
    /\ s_pc' = "Idle"
    /\ s_start_time' = Unset
    /\ s_attempt' = Unset
    /\ s_response' = NoResponse
    /\ s_sleep_time' = Unset
    /\ s_result' = <<>>
    /\ UNCHANGED <<r_t0, covVars, ctlVars, tailVars, probeVars, get_calls, perf, pollVars,
                   adaptVars, policyVars>>

---------------------------------------------------------------------------
(* SimulatedBaseWaiterStrategy._generate_propagation_delay                  *)

\* the branches of the if chain: the percentage rand is compared with (100
\* for the else branch) and the arguments of random.uniform
SamplerBranches ==
    << [below |-> 50,  lo |-> 0,   hi |-> 48],
       [below |-> 75,  lo |-> 48,  hi |-> 82],
       [below |-> 85,  lo |-> 82,  hi |-> 120],
       [below |-> 90,  lo |-> 120, hi |-> 142],
       [below |-> 95,  lo |-> 142, hi |-> 156],
       [below |-> 99,  lo |-> 156, hi |-> 234],
       [below |-> 100, lo |-> 234, hi |-> 312] >>

\* a comparison that sends a draw on a threshold to the lower bucket
RandBelow_Inclusive(rand, percent) == rand * 100 <= percent * RandResolution

\* rand < percent / 100
RandBelow(rand, percent) == rand * 100 < percent * RandResolution

RECURSIVE SamplerBranch(_, _)
\* the branch of the if chain taken for rand, tried from branch i on
SamplerBranch(rand, i) ==
    IF i = Len(SamplerBranches) \/ RandBelow(rand, SamplerBranches[i].below)
    THEN SamplerBranches[i]
    ELSE SamplerBranch(rand, i + 1)

\* values random.uniform(lo, hi) is sampled at
UniformDraws(lo, hi) == lo..hi

\* values of random.random()
RandDraws == 0..(RandResolution - 1)

GenIdle ==
    /\ g_pc = "Idle"
    /\ g_rand = Unset
    /\ g_delay = Unset

\* _generate_propagation_delay returns
GenerateDelay ==
    /\ g_pc = "Ask"
    /\ LET branch == SamplerBranch(g_rand, 1)
       IN  g_delay' \in UniformDraws(branch.lo, branch.hi)
    /\ g_pc' = "Drawn"
    /\ UNCHANGED <<g_rand, suiteVars, covVars, ctlVars, racerVars, probeVars, get_calls, perf, pollVars,
                   smartVars, adaptVars, policyVars>>

---------------------------------------------------------------------------
(* BaseWaiterStrategy.run_test_suite                                        *)

\* time.sleep(2) between two iterations
SuitePauseSeconds == 2

\* strategies the suite is run with: a fixed and a stepped policy, both with
\* the probe's own run_single_test
SuiteStrategies == {"Baseline", "Hybrid"}

\* what the store answers to a check of the suite: the configuration that
\* was put, no rule, or an error
SuiteResponses(s, id) ==
    { [kind |-> "ok", rules |-> generate_lifecycle_config(s, id).Rules],
      [kind |-> "ok", rules |-> <<>>],
      [kind |-> "error", code |-> "InternalError"] }

\* a list that keeps successful results only
AppendResult_SuccessOnly(rs, result) == IF result.success THEN Append(rs, result) ELSE rs

\* self.results.append(result)
AppendResult(rs, result) == Append(rs, result)

SuiteIdle ==
    /\ u_pc = "Idle"
    /\ u_i = 0
    /\ u_num_tests = 0
    /\ results = <<>>

\* the loop goes on: run_single_test(i) is called, with fresh locals
SuiteCall ==
    /\ u_pc = "Loop"
    /\ u_i < u_num_tests
    /\ u_pc' = "Running"
    /\ test_id' = u_i
    /\ pc' = "Idle"
    /\ put_start' = Unset
    /\ put_duration' = Unset
    /\ propagation_start' = Unset
    /\ elapsed' = Unset
    /\ interval' = Unset
    /\ check_count' = Unset
    /\ api_calls' = Unset
    /\ polling_history' = <<>>
    /\ get_start' = Unset
    /\ response' = NoResponse
    /\ returned' = <<>>
    /\ UNCHANGED <<strategy, enable_simulation, now, simulated_delay, sim_start, put_calls,
                   get_calls>>
    /\ UNCHANGED <<u_i, u_num_tests, results, genVars, covVars, ctlVars, racerVars, perf,
                   pollVars, smartVars, adaptVars, policyVars>>

\* run_single_test(i) of the suite
SuiteStartTest == u_pc = "Running" /\ StartTestOf(PutResponses)

SuitePutReturn == u_pc = "Running" /\ PutReturnOf({0})

SuiteTimeout == u_pc = "Running" /\ Timeout

SuiteStartSleep == u_pc = "Running" /\ StartSleepOf(MaxChecks)

SuiteStartCheck ==
    u_pc = "Running" /\ StartCheckOf(SleepOvershoots, SimDelays, SuiteResponses(strategy, test_id))

SuiteCheckReturn == u_pc = "Running" /\ CheckReturnOf({0}, {0})

\* run_single_test has returned: the result is appended and the suite pauses
\* for exactly the two seconds
SuiteAppend ==
    /\ u_pc = "Running"
    /\ pc \in Terminal
    /\ results' = AppendResult(results, returned[Len(returned)])
    /\ now' = now + SuitePauseSeconds
    /\ u_i' = u_i + 1
    /\ u_pc' = "Loop"
    /\ UNCHANGED <<pc, strategy, enable_simulation, test_id, put_start, put_duration,
                   propagation_start, elapsed, interval, check_count, api_calls,
                   polling_history, get_start, response, returned, simulated_delay,
                   sim_start, put_calls, get_calls>>
    /\ UNCHANGED <<u_num_tests, genVars, covVars, ctlVars, racerVars, perf, pollVars,
                   smartVars, adaptVars, policyVars>>

\* the loop is over: analyze_results and save_results run and self.results
\* is returned; with no result analyze_results divides by zero
SuiteFinish ==
    /\ u_pc = "Loop"
    /\ ~(u_i < u_num_tests)
    /\ u_pc' = IF Len(results) = 0 THEN "Raised" ELSE "Returned"
    /\ UNCHANGED <<u_i, u_num_tests, results, genVars, covVars, ctlVars, racerVars,
                   probeVars, get_calls, perf, pollVars, smartVars, adaptVars, policyVars>>

---------------------------------------------------------------------------
(* test_control_plane_racer followed to the end of its poller               *)

\* how long a read of the poller takes: every pass of the loop takes time
LiveReadDurations == {SlowCall \div 2, SlowCall}

\* what the store answers when the read returns: a configuration or a
\* ClientError
AnsweredResponses(i, main_pc) ==
    { resp \in RacerResponses(i, main_pc) :
         resp.kind = "ok" \/ resp.class = "ClientError" }

LivePollerRead ==
    r_pc \in SubmittedAt /\ SmartReadOf(LiveMaxChecks, AnsweredResponses(r_i, r_pc))

LivePollerReadReturn ==
    r_pc \in SubmittedAt /\ SmartReadReturnOf(LiveReadDurations, RacerRuleId(r_i))

\* the state in which none of the components added after the racer has started
TailIdle ==
    /\ GenIdle
    /\ SuiteIdle

\* the state in which none of the later components has started
ExtIdle ==
    /\ CovIdle
    /\ CtlIdle
    /\ RacerIdle
    /\ TailIdle

---------------------------------------------------------------------------
(* Specifications                                                           *)

\* the probe before run_single_test is entered, outside the probe's
\* specification
ProbeIdle ==
    /\ pc = "Idle"
    /\ strategy = "Baseline"
    /\ enable_simulation = FALSE
    /\ test_id = 0
    /\ now = 0
    /\ put_start = Unset
    /\ put_duration = Unset
    /\ propagation_start = Unset
    /\ elapsed = Unset
    /\ interval = Unset
    /\ check_count = Unset
    /\ api_calls = Unset
    /\ polling_history = <<>>
    /\ get_start = Unset
    /\ response = NoResponse
    /\ returned = <<>>
    /\ simulated_delay = Unset
    /\ sim_start = Unset
    /\ put_calls = 0

Init ==
    /\ ProbeInit
    /\ get_calls = 0
    /\ perf = 0
    /\ PollIdle
    /\ SmartIdle
    /\ AdaptIdle
    /\ PolicyIdle
    /\ ExtIdle

Next ==
    \/ StartTest
    \/ PutReturn
    \/ Timeout
    \/ StartSleep
    \/ StartCheck
    \/ CheckReturn

Spec == Init /\ [][Next]_vars

InitPoll ==
    /\ ProbeIdle
    /\ get_calls = 0
    /\ perf = 0
    /\ PollIdle
    /\ SmartIdle
    /\ AdaptIdle
    /\ PolicyIdle
    /\ ExtIdle

NextPoll ==
    \/ PollStart
    \/ PollTimeout
    \/ PollRead
    \/ PollReadReturn
    \/ PollWake

SpecPoll == InitPoll /\ [][NextPoll]_vars

InitSmartPoll ==
    /\ ProbeIdle
    /\ get_calls = 0
    /\ perf = 0
    /\ PollIdle
    /\ SmartIdle
    /\ AdaptIdle
    /\ PolicyIdle
    /\ ExtIdle

NextSmartPoll ==
    \/ SmartStart
    \/ SmartTimeout
    \/ SmartRead
    \/ SmartReadReturn
    \/ SmartWake

SpecSmartPoll == InitSmartPoll /\ [][NextSmartPoll]_vars

\* BaselineStrategy(enable_simulation=True) under idealized timing
InitIdeal ==
    /\ ProbeInitOf({"Baseline"})
    /\ enable_simulation
    /\ get_calls = 0
    /\ perf = 0
    /\ PollIdle
    /\ SmartIdle
    /\ AdaptIdle
    /\ PolicyIdle
    /\ ExtIdle

NextIdeal ==
    \/ IdealStartTest
    \/ IdealPutReturn
    \/ Timeout
    \/ IdealStartSleep
    \/ IdealStartCheck
    \/ IdealCheckReturn

SpecIdeal == InitIdeal /\ [][NextIdeal]_vars

\* one iteration of AdaptiveStrategy.run_single_test, from any window
InitAdaptive ==
    /\ ProbeInitOf({"Adaptive"})
    /\ get_calls = 0
    /\ perf = 0
    /\ PollIdle
    /\ SmartIdle
    /\ historical_times \in AdaptiveWindows
    /\ recorded = FALSE
    /\ PolicyIdle
    /\ ExtIdle

NextAdaptive ==
    \/ StartTest
    \/ PutReturn
    \/ Timeout
    \/ StartSleep
    \/ StartCheck
    \/ CheckReturn
    \/ AdaptiveRecord

SpecAdaptive == InitAdaptive /\ [][NextAdaptive]_vars

\* the policies asked with every strategy, elapsed time, check count and
\* history of the bounded sets
InitPolicy ==
    /\ ProbeIdle
    /\ get_calls = 0
    /\ perf = 0
    /\ PollIdle
    /\ SmartIdle
    /\ q_pc = "Ask"
    /\ q_strategy \in AllStrategies
    /\ q_elapsed \in 0..MaxElapsed
    /\ q_count \in {0, MaxChecks}
    /\ q_timeout = FALSE
    /\ q_interval = Unset
    /\ historical_times \in (IF q_strategy = "Adaptive" THEN PolicyHistories ELSE { <<>> })
    /\ recorded = FALSE
    /\ ExtIdle

NextPolicy ==
    \/ EvalShouldTimeout
    \/ EvalNextInterval

SpecPolicy == InitPolicy /\ [][NextPolicy]_vars

\* smart_poll_until_match while the rule stays invisible
InitBackoff ==
    /\ ProbeIdle
    /\ get_calls = 0
    /\ perf = 0
    /\ PollIdle
    /\ SmartIdle
    /\ AdaptIdle
    /\ PolicyIdle
    /\ ExtIdle

NextBackoff ==
    \/ SmartStart
    \/ SmartTimeout
    \/ BackoffRead
    \/ BackoffReadReturn
    \/ BackoffWake

SpecBackoff == InitBackoff /\ [][NextBackoff]_vars

\* iteration i of test_control_plane, for every i up to MaxIteration
InitControlPlane ==
    /\ ProbeIdle
    /\ get_calls = 0
    /\ perf = 0
    /\ PollIdle
    /\ SmartIdle
    /\ AdaptIdle
    /\ PolicyIdle
    /\ CovIdle
    /\ c_pc = "Start"
    /\ c_i \in 0..MaxIteration
    /\ c_prev_cfg = PrevCfgAt(c_i)
    /\ c_rows = <<>>
    /\ RacerIdle
    /\ TailIdle

NextControlPlane ==
    \/ CtlPut
    \/ CtlPutReturn
    \/ CtlPollStart
    \/ CtlPollTimeout
    \/ CtlPollRead
    \/ CtlPollReadReturn
    \/ CtlPollWake
    \/ CtlRecord

SpecControlPlane == InitControlPlane /\ [][NextControlPlane]_vars

\* the coverage analysis asked with every timeout of the bounded set
InitCoverage ==
    /\ ProbeIdle
    /\ get_calls = 0
    /\ perf = 0
    /\ PollIdle
    /\ SmartIdle
    /\ AdaptIdle
    /\ PolicyIdle
    /\ v_pc = "Ask"
    /\ v_timeout \in CoverageTimeouts
    /\ v_out = <<>>
    /\ CtlIdle
    /\ RacerIdle
    /\ TailIdle

NextCoverage ==
    \/ DisplayCoverage

SpecCoverage == InitCoverage /\ [][NextCoverage]_vars

\* test_control_plane_racer from the start of iteration i, for every i up to
\* MaxIteration
InitRacer ==
    /\ ProbeIdle
    /\ get_calls = 0
    /\ perf = 0
    /\ PollIdle
    /\ SmartIdle
    /\ AdaptIdle
    /\ PolicyIdle
    /\ CovIdle
    /\ CtlIdle
    /\ r_pc = "Start"
    /\ r_i \in 0..MaxIteration
    /\ r_t0 = Unset
    /\ r_stats = <<>>
    /\ TailIdle

NextRacer ==
    \/ RacerBegin
    \/ RacerPollerStart
    \/ RacerPollerTimeout
    \/ RacerPollerRead
    \/ RacerPollerReadReturn
    \/ RacerPollerWake
    \/ RacerLeadWake
    \/ RacerPutReturn
    \/ RacerCollect
    \/ RacerUnwind
    \/ RacerRecord

SpecRacer == InitRacer /\ [][NextRacer]_vars

\* _generate_propagation_delay called with every value of rand
InitSampler ==
    /\ ProbeIdle
    /\ get_calls = 0
    /\ perf = 0
    /\ PollIdle
    /\ SmartIdle
    /\ AdaptIdle
    /\ PolicyIdle
    /\ CovIdle
    /\ CtlIdle
    /\ RacerIdle
    /\ g_pc = "Ask"
    /\ g_rand \in RandDraws
    /\ g_delay = Unset
    /\ SuiteIdle

NextSampler ==
    \/ GenerateDelay

SpecSampler == InitSampler /\ [][NextSampler]_vars

\* by how much a sleep of an iteration followed to its end may overshoot
LiveOvershoots == {0, 2 * SlowCall}

\* one iteration of each policy followed to its end: every call and every
\* sleep returns, a sleep lasts at least the interval, remote calls take no
\* time, a check may or may not match
InitLive ==
    /\ ProbeInitOf(AllStrategies)
    /\ enable_simulation = FALSE
    /\ test_id = 0
    /\ simulated_delay = Unset
    /\ get_calls = 0
    /\ perf = 0
    /\ PollIdle
    /\ SmartIdle
    /\ historical_times \in (IF strategy = "Adaptive" THEN AdaptiveWindows ELSE {<<>>})
    /\ recorded = FALSE
    /\ PolicyIdle
    /\ ExtIdle

LiveStartTest == StartTestOf(PutResponses)

LivePutReturn == PutReturnOf({0})

LiveStartSleep == StartSleepOf(LiveMaxChecks)

LiveStartCheck == StartCheckOf(LiveOvershoots, SimDelays, SuiteResponses(strategy, test_id))

LiveCheckReturn == CheckReturnOf({0}, {0})

\* AdaptiveStrategy.run_single_test after super().run_single_test
LiveRecord == strategy = "Adaptive" /\ AdaptiveRecord

NextLive ==
    \/ LiveStartTest
    \/ LivePutReturn
    \/ Timeout
    \/ LiveStartSleep
    \/ LiveStartCheck
    \/ LiveCheckReturn
    \/ LiveRecord

\* every call and every sleep returns: a step that can be taken is taken
SpecLive == InitLive /\ [][NextLive]_vars /\ WF_vars(NextLive)

\* the steps of the worker thread
NextRacerPoller ==
    \/ RacerPollerStart
    \/ RacerPollerTimeout
    \/ LivePollerRead
    \/ LivePollerReadReturn
    \/ RacerPollerWake

\* the steps of the main thread
NextRacerMain ==
    \/ RacerBegin
    \/ RacerLeadWake
    \/ RacerPutReturn
    \/ RacerCollect
    \/ RacerUnwind
    \/ RacerRecord

NextRacerLive ==
    \/ NextRacerPoller
    \/ NextRacerMain

\* both threads are scheduled, and every read and every sleep returns
SpecRacerLive ==
    InitRacer /\ [][NextRacerLive]_vars /\ WF_vars(NextRacerPoller) /\ WF_vars(NextRacerMain)

\* one iteration of each policy under idealized timing: each sleep lasts
\* exactly the interval, remote calls take no time, a check may or may not
\* match
InitExact ==
    /\ ProbeInitOf(AllStrategies)
    /\ enable_simulation = FALSE
    /\ test_id = 0
    /\ simulated_delay = Unset
    /\ get_calls = 0
    /\ perf = 0
    /\ PollIdle
    /\ SmartIdle
    /\ historical_times \in (IF strategy = "Adaptive" THEN AdaptiveWindows ELSE {<<>>})
    /\ recorded = FALSE
    /\ PolicyIdle
    /\ ExtIdle

ExactStartTest == StartTestOf({ [kind |-> "ack"] })

ExactPutReturn == PutReturnOf({0})

ExactStartSleep == StartSleepOf(LiveMaxChecks)

ExactStartCheck == StartCheckOf({0}, SimDelays, SuiteResponses(strategy, test_id))

ExactCheckReturn == CheckReturnOf({0}, {0})

NextExact ==
    \/ ExactStartTest
    \/ ExactPutReturn
    \/ Timeout
    \/ ExactStartSleep
    \/ ExactStartCheck
    \/ ExactCheckReturn

SpecExact == InitExact /\ [][NextExact]_vars

\* run_test_suite(num_tests) called on a probe that has run no test
InitSuite ==
    /\ ProbeInitOf(SuiteStrategies)
    /\ test_id = 0
    /\ simulated_delay = Unset
    /\ get_calls = 0
    /\ perf = 0
    /\ PollIdle
    /\ SmartIdle
    /\ AdaptIdle
    /\ PolicyIdle
    /\ CovIdle
    /\ CtlIdle
    /\ RacerIdle
    /\ GenIdle
    /\ u_pc = "Loop"
    /\ u_i = 0
    /\ u_num_tests \in 0..MaxNumTests
    /\ results = <<>>

NextSuite ==
    \/ SuiteCall
    \/ SuiteStartTest
    \/ SuitePutReturn
    \/ SuiteTimeout
    \/ SuiteStartSleep
    \/ SuiteStartCheck
    \/ SuiteCheckReturn
    \/ SuiteAppend
    \/ SuiteFinish

SpecSuite == InitSuite /\ [][NextSuite]_vars

---------------------------------------------------------------------------
(* Properties of the probe iteration (checked under Spec)                   *)

InLoop == {"Polling", "Sleeping", "Checking"}

\* the result run_single_test returned last
LastResult == returned[Len(returned)]

HasKeys(r, keys) == keys \subseteq DOMAIN r

\* phase of a control point in Idle -> Mutating -> Polling -> terminal
Rank(p) ==
    CASE p = "Idle" -> 0
      [] p = "Mutating" -> 1
      [] p \in InLoop -> 2
      [] OTHER -> 3

\* C1: every returned TestResult, whichever terminal state produced it, has
\* api_calls = check_count + 1, and so have the running counters at every
\* point of the polling loop.
C1_ApiCallsIsChecksPlusOne ==
    /\ pc \in InLoop => api_calls = check_count + 1
    /\ \A i \in DOMAIN returned :
          /\ HasKeys(returned[i], {"api_calls", "check_count"})
          /\ returned[i].api_calls = returned[i].check_count + 1

\* C2: an iteration only moves forward through Idle, Mutating, Polling and a
\* terminal state; the store sees one PUT at most; nothing happens after a
\* terminal state; one result exists exactly from the terminal transition on
\* and is not changed afterwards.
C2_Step ==
    /\ Rank(pc') >= Rank(pc)
    /\ put_calls' <= 1
    /\ pc \in Terminal =>
          /\ pc' = pc
          /\ returned' = returned
          /\ get_calls' = get_calls
          /\ polling_history' = polling_history
    /\ pc' \notin Terminal => returned' = <<>>
    /\ pc' \in Terminal => Len(returned') = 1

C2_ForwardOnlyOneResult == [][C2_Step]_vars

C2_Witness ==
    /\ pc = "Matched"
    /\ Len(returned) = 1
    /\ check_count >= 2

\* C3: a read error outside the "not yet visible" class ends the polling loop
\* at once with the exception: no attempt is recorded for it, no result is
\* returned and no further check follows.
C3_UnexpectedErrorAborts ==
    [][(/\ pc = "Checking"
        /\ response.kind = "error"
        /\ response.code \notin NotYetVisible)
       => /\ pc' = "Aborted"
          /\ returned' = returned
          /\ polling_history' = polling_history]_vars

\* C6: a failing PUT ends the iteration in MutationFailed at once, with a
\* result of success = false that reports the error; the PUT is not issued
\* again and no read is performed.
C6_Step ==
    /\ (pc = "Mutating" /\ response.kind = "error") =>
          /\ pc' = "MutationFailed"
          /\ Len(returned') = 1
          /\ returned'[1].success = FALSE
          /\ HasKeys(returned'[1], {"error"})
    /\ pc' = "MutationFailed" =>
          /\ put_calls' = 1
          /\ get_calls' = 0
          /\ polling_history' = <<>>
          /\ check_count' = Unset

C6_MutationFailureIsTerminal == [][C6_Step]_vars

C6_Witness ==
    /\ pc = "MutationFailed"
    /\ Len(returned) = 1
    /\ returned[1].success = FALSE
    /\ put_calls = 1

\* C7: on a timeout the probe returns a result (no exception) with
\* success = false whose polling_history holds every attempt of the iteration
\* and whose check_count is their number.
C7_TimeoutCarriesHistory ==
    pc = "TimedOut" =>
        /\ Len(returned) = 1
        /\ LastResult.success = FALSE
        /\ LastResult.error = "Timeout"
        /\ LastResult.polling_history = polling_history
        /\ LastResult.check_count = Len(polling_history)
        /\ LastResult.check_count = check_count
        /\ \A k \in 1..Len(polling_history) : polling_history[k].attempt = k
        /\ ~enable_simulation => Len(LastResult.polling_history) = get_calls

C7_Witness ==
    /\ pc = "TimedOut"
    /\ Len(LastResult.polling_history) >= 2

\* C8: a result holds propagation_time exactly when its success is true.
C8_PropagationTimeIffSuccess ==
    \A i \in DOMAIN returned :
        HasKeys(returned[i], {"propagation_time"}) <=> returned[i].success

\* C9: a check that observes the expected configuration ends the iteration in
\* Matched; the result has success = true, check_count is the index of the
\* matching attempt, and propagation_time is the time elapsed since the
\* acknowledgment when the match is reported (read right after the attempt's
\* elapsed_at_check, so within one clock reading of it).
C9_Step ==
    /\ (/\ pc = "Checking"
        /\ response.kind = "ok"
        /\ response.rules = generate_lifecycle_config(strategy, test_id).Rules)
       => pc' = "Matched"
    /\ (pc' = "Matched" /\ pc # "Matched") =>
          LET r == returned'[Len(returned')]
              h == r.polling_history
          IN  /\ r.success = TRUE
              /\ r.check_count = Len(h)
              /\ h[Len(h)].attempt = r.check_count
              /\ h[Len(h)].matched = TRUE
              /\ r.propagation_time = now' - propagation_start'
              /\ r.propagation_time >= h[Len(h)].elapsed_at_check
              /\ r.propagation_time <= h[Len(h)].elapsed_at_check + TickMax

C9_MatchEndsInMatched == [][C9_Step]_vars

C9_Witness ==
    /\ pc = "Matched"
    /\ LastResult.success = TRUE
    /\ LastResult.check_count >= 2
    /\ LastResult.propagation_time >
          LastResult.polling_history[LastResult.check_count].elapsed_at_check

IndexedAndChronological(h) ==
    /\ \A k \in 1..Len(h) : h[k].attempt = k
    /\ \A k \in 1..(Len(h) - 1) : h[k].elapsed_at_check <= h[k + 1].elapsed_at_check

AppendOnly(h, h2) ==
    /\ Len(h2) >= Len(h)
    /\ SubSeq(h2, 1, Len(h)) = h

\* C10 as stated: polling_history is append-only and chronological, its k-th
\* entry has attempt index k, and at every point of the iteration its length
\* equals check_count.
C10_LengthIsCheckCountEverywhere ==
    [][/\ AppendOnly(polling_history, polling_history')
       /\ IndexedAndChronological(polling_history')
       /\ pc' \in InLoop \cup {"Matched", "TimedOut"} =>
             Len(polling_history') = check_count']_vars

\* C10 as amended: the same, except that while a check is in flight
\* check_count has already been incremented and the length is check_count - 1.
C10_AppendOnlyChronological ==
    [][/\ AppendOnly(polling_history, polling_history')
       /\ IndexedAndChronological(polling_history')
       /\ pc' \in {"Polling", "Sleeping", "Matched", "TimedOut"} =>
             Len(polling_history') = check_count'
       /\ pc' = "Checking" => Len(polling_history') = check_count' - 1]_vars

C10_Witness ==
    /\ pc = "Checking"
    /\ Len(polling_history) >= 2
    /\ check_count = Len(polling_history) + 1
    /\ polling_history[1].elapsed_at_check < polling_history[2].elapsed_at_check


\* C11: a round of the loop runs in the order evaluate should_timeout, sleep
\* the interval, perform one check, append one PollingAttempt, classify the
\* outcome.  The timeout is evaluated only at the top of a round, once before
\* each check, on a fresh reading of the elapsed time; a sleep and a check in
\* flight always run to their end.
C11_Step ==
    /\ pc = "Polling" =>
          /\ pc' \in {"Sleeping", "TimedOut"}
          /\ elapsed' = now - propagation_start
          /\ (pc' = "TimedOut") <=> should_timeout(strategy, elapsed', check_count)
          /\ pc' = "Sleeping" =>
                interval' = calculate_next_interval(strategy, elapsed', check_count)
          /\ now' = now
          /\ check_count' = check_count
          /\ polling_history' = polling_history
    /\ pc = "Sleeping" =>
          /\ pc' = "Checking"
          /\ now' >= now + interval
          /\ check_count' = check_count + 1
          /\ elapsed' = elapsed
          /\ polling_history' = polling_history
    /\ pc = "Checking" =>
          /\ pc' \in {"Polling", "Matched", "Aborted"}
          /\ elapsed' = elapsed
          /\ check_count' = check_count
          /\ pc' # "Aborted" =>
                /\ Len(polling_history') = Len(polling_history) + 1
                /\ polling_history'[Len(polling_history')].attempt = check_count
                /\ (pc' = "Matched") <=> polling_history'[Len(polling_history')].matched
    /\ (pc' = "TimedOut" /\ pc # "TimedOut") => pc = "Polling"

C11_TimeoutOnlyBetweenAttempts == [][C11_Step]_vars

\* a check is in flight although the deadline has passed during the sleep
C11_Witness ==
    /\ pc = "Checking"
    /\ check_count >= 2
    /\ should_timeout(strategy, now - propagation_start, check_count)

\* C14: in simulation mode, a check made while the time elapsed in the
\* iteration is below the drawn delay reports non-match without calling the
\* store, and a check made once the elapsed time has reached the delay is
\* delegated to the real comparison.
C14_DelegatedOnceElapsedReachesDelay ==
    (pc = "Checking" /\ enable_simulation) =>
        IF now - propagation_start < simulated_delay
        THEN response = NoCall
        ELSE response # NoCall

\* what the simulator does (holds under Spec): the delay is measured from the
\* first check of the iteration, not from the iteration's start
SimulatorGatesOnTimeSinceFirstCheck ==
    /\ (pc = "Checking" /\ enable_simulation) =>
          IF now - sim_start < simulated_delay
          THEN response = NoCall
          ELSE response # NoCall
    /\ (pc = "Checking" /\ ~enable_simulation) => response # NoCall

\* C15: the simulator's delay and reference start time belong to one
\* iteration.  Entering an iteration unsets both, whatever an earlier
\* iteration left; one delay is drawn, on the first check, together with the
\* start time; both stay as drawn for the rest of the iteration.
C15_Step ==
    /\ (pc = "Idle" /\ pc' # "Idle") =>
          /\ simulated_delay' = Unset
          /\ sim_start' = Unset
    /\ (pc' = "Mutating" \/ (pc' \in InLoop /\ check_count' = 0)) =>
          /\ simulated_delay' = Unset
          /\ sim_start' = Unset
    /\ (pc = "Sleeping" /\ check_count = 0 /\ enable_simulation) =>
          /\ simulated_delay' \in SimDelays
          /\ sim_start' = now'
    /\ (pc # "Idle" /\ <<simulated_delay, sim_start>>' # <<simulated_delay, sim_start>>) =>
          /\ pc = "Sleeping"
          /\ check_count = 0
          /\ enable_simulation
    /\ (pc' = "Checking" /\ enable_simulation) =>
          /\ simulated_delay' # Unset
          /\ sim_start' >= propagation_start'
          /\ sim_start' <= now'

C15_SimulatorStateIsIterationScoped == [][C15_Step]_vars

\* a later check of an iteration answered from the delay drawn on its first
C15_Witness ==
    /\ pc = "Checking"
    /\ enable_simulation
    /\ check_count = 2
    /\ simulated_delay \in SimDelays
    /\ sim_start < now
    /\ response = NoCall

---------------------------------------------------------------------------
(* Properties of the standalone pollers                                     *)

\* a read error that is not expected-absent
Unexpected(resp) ==
    /\ resp.kind = "error"
    /\ resp.class # "ClientError" \/ resp.code \notin ExpectedAbsentCodes

\* C4: in the standalone pollers only the expected-absent codes are swallowed;
\* any other error raised by a read leaves the poller as an exception.  Stated
\* for smart_poll_until_match (checked under SpecSmartPoll).
C4_SmartPollSurfacesUnexpected ==
    [][(s_pc = "Reading" /\ Unexpected(s_response))
       => /\ s_pc' = "Raised"
          /\ s_result' = s_result]_vars

\* the same statement for poll_until_match (holds under SpecPoll)
PollSurfacesUnexpected ==
    [][/\ (p_pc = "Reading" /\ Unexpected(p_response))
          => p_pc' = "Raised" /\ p_result' = p_result
       /\ p_pc' = "Raised" => Unexpected(p_response)]_vars

\* C5: an expected-absent answer to a read is swallowed and counted as a poll
\* attempt that did not match: the poll counter goes up by one, nothing is
\* returned and polling goes on.  Stated for poll_until_match (checked under
\* SpecPoll).
C5_PollCountsExpectedAbsent ==
    [][(/\ p_pc = "Reading"
        /\ p_response.kind = "error"
        /\ p_response.class = "ClientError"
        /\ p_response.code \in ExpectedAbsentCodes)
       => /\ p_polls' = p_polls + 1
          /\ p_result' = p_result
          /\ p_pc' = "Sleeping"]_vars

\* the same statement for the probe (holds under Spec): the attempt is
\* recorded with matched = false and the loop goes on
ProbeRecordsExpectedAbsent ==
    [][/\ (/\ pc = "Sleeping"
           /\ pc' = "Checking"
           /\ response'.kind = "error"
           /\ response'.code \in NotYetVisible)
          => check_count' = check_count + 1
       /\ (/\ pc = "Checking"
           /\ response.kind = "error"
           /\ response.code \in NotYetVisible)
          => /\ polling_history' =
                   Append(polling_history, polling_history'[Len(polling_history')])
             /\ polling_history'[Len(polling_history')].attempt = check_count
             /\ polling_history'[Len(polling_history')].matched = FALSE
             /\ returned' = returned
             /\ pc' = "Polling"]_vars

---------------------------------------------------------------------------
(* Properties of the idealized iteration (checked under SpecIdeal)          *)

\* C12: Baseline (interval 3, timeout 180) against a simulated delay of 48 s
\* under idealized timing returns exactly one result, with success = true,
\* propagation_time in [48, 51) and check_count = 16.
C12_Delay48MatchesAtCheck16 ==
    (pc \in Terminal /\ simulated_delay = 48) =>
        /\ Len(returned) = 1
        /\ LastResult.success = TRUE
        /\ LastResult.propagation_time >= 48
        /\ LastResult.propagation_time < 51
        /\ LastResult.check_count = 16

\* what the code returns for that run (holds under SpecIdeal): the match is
\* reported one round later
Delay48MatchesAtCheck17 ==
    (pc \in Terminal /\ simulated_delay = 48) =>
        /\ Len(returned) = 1
        /\ LastResult.success = TRUE
        /\ LastResult.propagation_time = 51
        /\ LastResult.check_count = 17

\* C13: Baseline (interval 3, timeout 180) against a simulated delay of 200 s
\* under idealized timing ends in TimedOut with success = false,
\* check_count = 60 and a polling_history of 60 attempts none of which
\* matched.
C13_Delay200TimesOutAfter60Checks ==
    /\ (pc \in InLoop /\ simulated_delay = 200) => check_count <= 60
    /\ (pc \notin InLoop \cup {"Idle", "Mutating"} /\ simulated_delay = 200) =>
          /\ pc = "TimedOut"
          /\ Len(returned) = 1
          /\ LastResult.success = FALSE
          /\ LastResult.check_count = 60
          /\ Len(LastResult.polling_history) = 60
          /\ \A k \in 1..60 : LastResult.polling_history[k].matched = FALSE

C13_Witness ==
    /\ pc = "TimedOut"
    /\ simulated_delay = 200
    /\ LastResult.check_count = 60
    /\ LastResult.propagation_time = 180

---------------------------------------------------------------------------
(* Properties of the policies (checked under SpecPolicy)                    *)

\* should_timeout has been called
TimeoutAnswered == q_pc \in {"AskInterval", "Answered"}

\* C16: with fewer than 3 samples in the history the Adaptive should_timeout
\* is true exactly when elapsed >= 300, for every elapsed time, check count
\* and stored samples.
C16_AdaptiveBootstrap ==
    (TimeoutAnswered /\ q_strategy = "Adaptive" /\ Len(historical_times) < 3) =>
        (q_timeout <=> q_elapsed >= 300)

\* two samples whose mean + 3*stdev is far above 300
C16_Witness ==
    /\ TimeoutAnswered
    /\ q_strategy = "Adaptive"
    /\ historical_times = <<40, 330>>
    /\ q_elapsed = 300
    /\ q_count = MaxChecks
    /\ q_timeout = TRUE

\* C17: with at least 3 samples the Adaptive timeout is
\* clamp(mean + 3*stdev, 300, 600): never below 300, never above 600, equal
\* to mean + 3*stdev in between; [40, 50, 60] gives 300, a history with
\* mean + 3*stdev > 600 gives 600, and [300, 300, 330] (mean 310, stdev
\* sqrt(300)) gives 361.96..., [300, 330, 330] gives 371.96...
C17_AdaptiveTimeoutIsClamped ==
    (TimeoutAnswered /\ q_strategy = "Adaptive" /\ Len(historical_times) >= 3) =>
        /\ q_elapsed < 300 => q_timeout = FALSE
        /\ q_elapsed >= 600 => q_timeout = TRUE
        /\ (q_elapsed >= 300 /\ q_elapsed < 600) =>
              (q_timeout <=> MeanPlusStdevsLe(historical_times, 3, q_elapsed))
        /\ historical_times = <<40, 50, 60>> => (q_timeout <=> q_elapsed >= 300)
        /\ ~MeanPlusStdevsLe(historical_times, 3, 600) => (q_timeout <=> q_elapsed >= 600)
        /\ historical_times = <<300, 300, 330>> => (q_timeout <=> q_elapsed >= 362)
        /\ historical_times = <<300, 330, 330>> => (q_timeout <=> q_elapsed >= 372)

\* a timeout strictly between the two clamps
C17_Witness ==
    /\ TimeoutAnswered
    /\ q_strategy = "Adaptive"
    /\ historical_times = <<300, 300, 330>>
    /\ q_elapsed = 362
    /\ q_timeout = TRUE

\* C20: for Baseline (T = 180) and Extended (T = 600) should_timeout(t, k) is
\* true exactly when t >= T, whatever k, and calculate_next_interval is the
\* same constant for every (t, k).
C20_FixedPolicy ==
    (q_pc = "Answered" /\ q_strategy \in {"Baseline", "Extended"}) =>
        /\ q_timeout <=> q_elapsed >= (IF q_strategy = "Baseline" THEN 180 ELSE 600)
        /\ q_interval = 3

C20_Witness ==
    /\ q_pc = "Answered"
    /\ q_strategy = "Extended"
    /\ q_elapsed = 600
    /\ q_count = MaxChecks
    /\ q_timeout = TRUE
    /\ q_interval = 3

\* C21: for every elapsed time and check count the Adaptive
\* calculate_next_interval returns what the Hybrid calculate_next_interval
\* returns.
C21_AdaptiveIntervalIsHybridInterval ==
    (q_pc = "Answered" /\ q_strategy = "Adaptive") =>
        q_interval = HybridInterval(q_elapsed, q_count)

\* what the code does (holds under SpecPolicy): the two schedules agree
\* except on [120, 180), where Adaptive sleeps 10 s and Hybrid 15 s
AdaptiveIntervalDiffersOn120To180 ==
    (q_pc = "Answered" /\ q_strategy = "Adaptive") =>
        IF q_elapsed >= 120 /\ q_elapsed < 180
        THEN q_interval = 10 /\ HybridInterval(q_elapsed, q_count) = 15
        ELSE q_interval = HybridInterval(q_elapsed, q_count)

\* C22: the Hybrid interval is 2 s below 30 s of elapsed time, 4 s from 30 s
\* to below 60 s, 8 s from 60 s to below 120 s and 15 s from 120 s on,
\* whatever the check count; should_timeout is true exactly when
\* elapsed >= 600.
C22_HybridPolicy ==
    (q_pc = "Answered" /\ q_strategy = "Hybrid") =>
        /\ q_elapsed < 30 => q_interval = 2
        /\ (q_elapsed >= 30 /\ q_elapsed < 60) => q_interval = 4
        /\ (q_elapsed >= 60 /\ q_elapsed < 120) => q_interval = 8
        /\ q_elapsed >= 120 => q_interval = 15
        /\ q_timeout <=> q_elapsed >= 600

\* the first elapsed time of the 4 s step, asked with a non-zero check count
C22_Witness ==
    /\ q_pc = "Answered"
    /\ q_strategy = "Hybrid"
    /\ q_elapsed = 30
    /\ q_count = MaxChecks
    /\ q_interval = 4
    /\ q_timeout = FALSE

---------------------------------------------------------------------------
(* Properties of the Adaptive window (checked under SpecAdaptive)           *)

\* C18: the window never holds more than 20 entries; a successful iteration
\* appends its propagation time at the end, and when that overflows the
\* window the oldest entry, and only it, is dropped.  From a window that
\* holds the latest successes in chronological order the result is again
\* one.
C18_Step ==
    /\ Len(historical_times') <= 20
    /\ (~recorded /\ recorded' /\ LastResult.success) =>
          LET sample == LastResult.propagation_time
              h      == historical_times
              h2     == historical_times'
          IN  IF Len(h) < 20
              THEN h2 = Append(h, sample)
              ELSE /\ Len(h2) = 20
                   /\ h2[20] = sample
                   /\ \A i \in 1..19 : h2[i] = h[i + 1]

C18_WindowIsBoundedFifo == [][C18_Step]_vars

\* a full window after a success: the oldest entry has gone
C18_Witness ==
    /\ recorded
    /\ pc = "Matched"
    /\ Len(historical_times) = 20
    /\ historical_times[1] = FullWindow[2]
    /\ historical_times[20] = LastResult.propagation_time

\* C19: the window changes only when an iteration has finished with
\* success = true; a TimedOut or MutationFailed iteration leaves it as it
\* was, and no step of a running iteration touches it, so every
\* should_timeout call of an iteration sees the same window.
C19_Step ==
    /\ historical_times' # historical_times =>
          /\ pc = "Matched"
          /\ pc' = "Matched"
          /\ LastResult.success = TRUE
          /\ ~recorded
          /\ recorded'
    /\ pc \in {"TimedOut", "MutationFailed"} => historical_times' = historical_times
    /\ pc \in {"Idle", "Mutating"} \cup InLoop => historical_times' = historical_times

C19_WindowChangesOnlyAfterSuccess == [][C19_Step]_vars

\* a timed-out iteration that has gone through the record step
C19_Witness ==
    /\ recorded
    /\ pc = "TimedOut"
    /\ check_count >= 2
    /\ historical_times = FullWindow

---------------------------------------------------------------------------
(* Properties of the coverage analysis (checked under SpecCoverage)         *)

\* the table of the specification: label, upper bound in seconds, estimated
\* success rate in tenths of a percent
EmpiricalTable ==
    { <<"P50", 48, 500>>, <<"P75", 82, 750>>, <<"P85", 120, 850>>, <<"P90", 142, 900>>,
      <<"P95", 156, 950>>, <<"P99", 234, 990>>, <<"Max", 312, 999>> }

\* C30: for every timeout the analysis selects the bucket with the largest
\* upper bound that is <= timeout and reports its rate (timeout 150 selects
\* P90, 90.0%); a warning is printed exactly when the estimate is below 95%,
\* and also when the timeout is below every bound and no bucket is selected.
C30_CoverageSelectsLargestBucket ==
    v_pc = "Shown" =>
        LET out  == v_out[1]
            fits == { e \in EmpiricalTable : e[2] <= v_timeout }
        IN  /\ IF fits = {}
               THEN /\ out.coverage = "Below P50"
                    /\ "expected_success" \notin DOMAIN out
                    /\ out.warning = TRUE
               ELSE \E e \in fits :
                       /\ \A f \in fits : f[2] <= e[2]
                       /\ out.coverage = e[1]
                       /\ out.expected_success = e[3]
                       /\ out.warning <=> e[3] < 950
            /\ v_timeout = 150 =>
                  /\ out.coverage = "P90"
                  /\ out.expected_success = 900
                  /\ out.warning = TRUE

\* a timeout on a bound: 156 s selects P95, 95.0%, without a warning
C30_Witness ==
    /\ v_pc = "Shown"
    /\ v_timeout = 156
    /\ v_out[1].coverage = "P95"
    /\ v_out[1].expected_success = 950
    /\ v_out[1].warning = FALSE

---------------------------------------------------------------------------
(* Properties of the racer's poller (checked under SpecBackoff)             *)

\* C23: the interval slept after attempt k lies in [0, min(cap, base * 2^k)]
\* with base = 0.5 s and cap = 10 s, so no sleep exceeds the cap.
C23_JitterWithinCappedBackoff ==
    s_pc = "Sleeping" =>
        /\ s_attempt >= 1
        /\ s_sleep_time >= 0
        /\ s_sleep_time <= 500 * 2^s_attempt
        /\ s_sleep_time <= 10000

\* a sleep of the full cap, after an attempt whose backoff exceeds the cap
C23_Witness ==
    /\ s_pc = "Sleeping"
    /\ s_attempt = 5
    /\ s_sleep_time = 10000

---------------------------------------------------------------------------
(* Properties of test_control_plane (checked under SpecControlPlane)        *)

\* the row of the iteration
LastRow == c_rows[Len(c_rows)]

\* C29: the stale-first-read flag of an iteration is true only when the
\* first observed snapshot is the previous iteration's configuration and not
\* the new one; it is false in the first iteration, false when no snapshot
\* was read, and never true together with the first-read-matched flag.
C29_StaleOnlyForPreviousConfig ==
    c_pc = "Recorded" =>
        LET first == p_result[Len(p_result)].first_read
        IN  /\ LastRow.iteration = c_i
            /\ LastRow.first_read_stale =>
                  /\ first # <<>>
                  /\ c_i > 0
                  /\ first[1] = ControlPlaneCfg(c_i - 1)
                  /\ first[1].Rules[1].ID = <<"expire", c_i - 1>>
                  /\ first[1] # ControlPlaneCfg(c_i)
            /\ c_i = 0 => LastRow.first_read_stale = FALSE
            /\ first = <<>> => LastRow.first_read_stale = FALSE
            /\ ~(LastRow.first_read_stale /\ LastRow.first_read_matched)

\* a first read that showed the previous configuration, then a match
C29_Witness ==
    /\ c_pc = "Recorded"
    /\ LastRow.first_read_stale = TRUE
    /\ LastRow.first_read_matched = FALSE
    /\ LastRow.matched = TRUE
    /\ LastRow.polls >= 2

---------------------------------------------------------------------------
(* Properties of test_control_plane_racer (checked under SpecRacer)         *)

\* the result the future of the iteration holds
PollerResult == s_result[Len(s_result)]

\* the step of the main thread that appends the row of the iteration
RacerRecordStep == r_pc = "Collected" /\ Len(r_stats') = Len(r_stats) + 1

\* the row appended by the step
NewRacerRow == r_stats'[Len(r_stats')]

\* C24: in every iteration where the poller detects the new identifier, the
\* reported propagation delay equals the detection timestamp minus the
\* shared start timestamp t0 and is never negative; when the poller does not
\* detect it, no delay is reported.
C24_DelayIsDetectionMinusT0 ==
    [][RacerRecordStep =>
          /\ NewRacerRow.iteration = r_i
          /\ NewRacerRow.found = PollerResult.found
          /\ PollerResult.found =>
                /\ NewRacerRow.delay_sec = <<PollerResult.detected_at - r_t0>>
                /\ NewRacerRow.delay_sec[1] >= 0
          /\ ~PollerResult.found => NewRacerRow.delay_sec = <<>>]_vars

\* one iteration recorded with a positive delay
C24_Witness ==
    /\ r_pc = "Start"
    /\ Len(r_stats) = 1
    /\ r_stats[1].found = TRUE
    /\ r_stats[1].delay_sec # <<>>
    /\ r_stats[1].delay_sec[1] >= LeadSleepMs

\* one iteration recorded in which the poller gave up
RacerNotFoundRecorded ==
    /\ r_pc = "Start"
    /\ Len(r_stats) = 1
    /\ r_stats[1].found = FALSE
    /\ r_stats[1].delay_sec = <<>>

\* C25: in every iteration and under every interleaving of the two actors,
\* the writer issues the mutation only after the poller has started polling:
\* the poller has begun its loop before the PUT is sent.
C25_PutSentAfterPollerStarted ==
    [][(r_pc = "LeadSleep" /\ r_pc' = "Putting") => s_pc # "Idle"]_vars

\* the PUT is in flight or acknowledged and the worker thread has not
\* entered smart_poll_until_match yet
PutSentBeforePollerStarted ==
    /\ r_pc \in {"Putting", "Waiting"}
    /\ s_pc = "Idle"

\* a step of the worker thread
PollerStep == smartVars' # smartVars /\ r_pc \in SubmittedAt

\* a step of the main thread between the submit and the collection
WriterStep == r_pc \in {"LeadSleep", "Putting"} /\ r_pc' # r_pc

\* C26: an iteration runs one poller and one writer that share no mutable
\* in-process state, only the immutable start timestamp; the poller of
\* iteration i has returned before the writer or poller of iteration i+1
\* starts, so at no time are two pollers or two writers active.
C26_TwoActorsNoSharedState ==
    [][/\ PollerStep => UNCHANGED racerVars
       /\ s_pc' # "Idle" => s_start_time' = r_t0'
       /\ WriterStep => UNCHANGED smartVars
       /\ r_t0' # r_t0 => (r_pc = "Start" /\ s_pc = "Idle")
       /\ r_i' # r_i => (r_pc = "Collected" /\ s_pc = "Returned" /\ s_pc' = "Idle")
       /\ (r_pc = "Waiting" /\ r_pc' # r_pc) => s_pc \in {"Returned", "Raised"}
       /\ (r_pc = "PutFailed" /\ r_pc' # r_pc) => s_pc \in {"Returned", "Raised"}
       /\ r_pc' = "Start" => s_pc' = "Idle"
       /\ (s_pc = "Idle" /\ s_pc' # "Idle") => r_pc \in SubmittedAt]_vars

\* the next iteration is about to start after an iteration whose poller ran
\* while the PUT was in flight
C26_Witness ==
    /\ r_pc = "Start"
    /\ Len(r_stats) = 1
    /\ r_stats[1].api_calls >= 2
    /\ s_pc = "Idle"

\* C27: the poller reports found only after a read whose rule set contains
\* the expected rule ID of the current iteration; reads that return the
\* previous configuration, another configuration, or an error never produce
\* found.
C27_FoundOnlyForExpectedRule ==
    [][(s_pc = "Reading" /\ s_pc' # "Reading") =>
          LET hit == /\ s_response.kind = "ok"
                     /\ \E k \in 1..Len(s_response.config.Rules) :
                           s_response.config.Rules[k].ID = <<"rule", r_i>>
          IN  /\ hit => (s_pc' = "Returned" /\ s_result'[Len(s_result')].found = TRUE)
              /\ ~hit => (s_result' = s_result /\ s_pc' # "Returned")]_vars

\* the rule is found after a read that showed the previous configuration
C27_Witness ==
    /\ s_pc = "Returned"
    /\ r_i > 0
    /\ PollerResult.found = TRUE
    /\ PollerResult.attempts >= 2

\* keys under which a row could hold the first observed snapshot
FirstSnapshotKeys == {"first_read", "first_read_rule", "first_snapshot", "first_seen"}

\* C28: every ConcurrentRacer iteration records the identity of the first
\* snapshot the poller observed in its result, alongside the found flag and
\* the delay.
C28_RowHoldsFirstSnapshot ==
    \A k \in 1..Len(r_stats) :
        /\ HasKeys(r_stats[k], {"found", "delay_sec"})
        /\ DOMAIN r_stats[k] \cap FirstSnapshotKeys # {}

\* what a row of the racer holds
RacerRowKeys ==
    \A k \in 1..Len(r_stats) :
        DOMAIN r_stats[k] = {"iteration", "found", "delay_sec", "api_calls"}

---------------------------------------------------------------------------
(* Properties of the simulator's sampler (checked under SpecSampler)        *)

\* the buckets of the specification: rand from (percent), rand below
\* (percent), lower and upper bound of the delay in seconds
SamplingTable ==
    { <<0, 50, 0, 48>>, <<50, 75, 48, 82>>, <<75, 85, 82, 120>>, <<85, 90, 120, 142>>,
      <<90, 95, 142, 156>>, <<95, 99, 156, 234>>, <<99, 100, 234, 312>> }

\* C31: every draw r in [0,1) is mapped to the bucket whose cumulative range
\* contains it and the delay returned lies inside that bucket, so every delay
\* lies in [0, 312]; the bucket bounds are the values of the coverage table.
C31_SamplerMapsDrawToBucket ==
    g_pc = "Drawn" =>
        /\ \E e \in SamplingTable :
              /\ e[1] * RandResolution <= g_rand * 100
              /\ g_rand * 100 < e[2] * RandResolution
              /\ e[3] <= g_delay /\ g_delay <= e[4]
        /\ 0 <= g_delay /\ g_delay <= 312
        /\ { SamplerBranches[k].hi : k \in 1..Len(SamplerBranches) }
              = { SortedDistribution[k].time_value : k \in 1..Len(SortedDistribution) }
        /\ \A k \in 1..Len(SamplerBranches) :
              SamplerBranches[k].lo = IF k = 1 THEN 0 ELSE SortedDistribution[k - 1].time_value

\* a draw in [0.85, 0.90) returns the upper bound of its bucket
C31_Witness ==
    /\ g_pc = "Drawn"
    /\ 85 * RandResolution <= g_rand * 100
    /\ g_rand * 100 < 90 * RandResolution
    /\ g_delay = 142

---------------------------------------------------------------------------
(* Properties of run_test_suite (checked under SpecSuite)                   *)

\* the results are those of the test ids 0, 1, ... in this order
InTestIdOrder(rs) == \A k \in 1..Len(rs) : rs[k].test_id = k - 1

\* C32: the iterations of a suite run strictly one after the other: no
\* mutation and no check of iteration i+1 happens before iteration i has
\* reached a terminal state and its result has been appended, so after
\* run_test_suite(n) the result list holds exactly n results in test_id order
\* 0..n-1, failed iterations included.
C32_SuiteIsSequential ==
    [][/\ (put_calls' # put_calls \/ get_calls' # get_calls \/ check_count' > check_count)
            => /\ u_pc = "Running"
               /\ test_id = u_i
               /\ Len(results) = u_i
       /\ results' # results
            => /\ pc \in Terminal
               /\ Len(results') = Len(results) + 1
               /\ results'[Len(results')] = returned[Len(returned)]
               /\ results'[Len(results')].test_id = u_i
               /\ u_i' = u_i + 1
       /\ InTestIdOrder(results')
       /\ Len(results') = u_i'
       /\ u_pc' \in {"Returned", "Raised"} => Len(results') = u_num_tests]_vars

\* a suite of two iterations has returned with a failed PUT first and a
\* success second
C32_Witness ==
    /\ u_pc = "Returned"
    /\ u_num_tests = 2
    /\ Len(results) = 2
    /\ results[1].success = FALSE
    /\ results[2].success = TRUE
    /\ results[2].test_id = 1

---------------------------------------------------------------------------
(* Termination of the probe iteration (checked under SpecLive)              *)

\* C33: under each of the four policies, every call and every sleep
\* returning and a sleep lasting at least its interval, the iteration
\* eventually reaches Matched, TimedOut or MutationFailed; an evaluation of
\* should_timeout at elapsed >= 600 ends the iteration, so no check is
\* started after it. The iteration ends before the model stops following it.
C33_IterationTerminates ==
    /\ <>(pc \in {"Matched", "TimedOut", "MutationFailed"})
    /\ [][(pc = "Polling" /\ elapsed' >= 600) => pc' = "TimedOut"]_vars
    /\ [](pc = "Sleeping" => (elapsed < 600 /\ check_count < LiveMaxChecks))

\* the Extended policy gives up after 200 checks, 3 s apart
C33_Witness ==
    /\ pc = "TimedOut"
    /\ strategy = "Extended"
    /\ check_count = 200
    /\ elapsed = 600

---------------------------------------------------------------------------
(* Consistency of the matched flags (checked under Spec)                    *)

\* results that carry a polling_history
WithHistory == { k \in 1..Len(returned) : "polling_history" \in DOMAIN returned[k] }

\* C34: in every result that carries a polling_history the matched flags
\* agree with the outcome: a successful result has a non-empty history whose
\* last attempt is the only one with matched = true, and a timeout result has
\* no attempt with matched = true.
C34_MatchedFlagsAgreeWithOutcome ==
    \A k \in WithHistory :
        LET r == returned[k]
            h == r.polling_history
        IN  /\ r.success =>
                  /\ Len(h) >= 1
                  /\ \A j \in 1..Len(h) : h[j].matched <=> j = Len(h)
            /\ (~r.success /\ r.error = "Timeout") =>
                  \A j \in 1..Len(h) : ~h[j].matched
            /\ pc = "TimedOut" => ~r.success /\ r.error = "Timeout"

\* a success after a check that did not match
C34_Witness ==
    /\ pc = "Matched"
    /\ WithHistory = {1}
    /\ Len(returned[1].polling_history) >= 2
    /\ returned[1].polling_history[1].matched = FALSE
    /\ returned[1].polling_history[Len(returned[1].polling_history)].matched = TRUE

\* a timeout after checks none of which matched
TimedOutWithHistory ==
    /\ pc = "TimedOut"
    /\ WithHistory = {1}
    /\ Len(returned[1].polling_history) >= 2

---------------------------------------------------------------------------
(* The check after the last sleep (checked under SpecExact)                 *)

\* the fixed policies: interval c and timeout T
FixedPolicies == {"Baseline", "Extended"}
FixedC(s) == IF s = "Baseline" THEN BaselineInterval ELSE ExtendedInterval
FixedT(s) == IF s = "Baseline" THEN BaselineTimeout ELSE ExtendedTimeout

\* the check in flight is answered with the expected configuration
MatchInFlight ==
    /\ pc = "Checking"
    /\ response.kind = "ok"
    /\ response.rules = generate_lifecycle_config(strategy, test_id).Rules

\* C35: the timeout is evaluated at the top of the loop only. Whenever the
\* elapsed time sampled there is below the timeout the probe sleeps and then
\* starts the check; under idealized timing the check happens at the sampled
\* elapsed time plus the interval slept, hence below T + interval; a match
\* found by that check is a success even if the elapsed time is then >= T;
\* and a Fixed(c, T) iteration performs at most ceil(T/c) checks.
C35_CheckAfterSleepIsNotReevaluated ==
    [][/\ (pc = "Polling" /\ pc' # pc) =>
             IF should_timeout(strategy, elapsed', check_count)
             THEN pc' = "TimedOut" ELSE pc' = "Sleeping"
       /\ (pc = "Sleeping" /\ pc' # pc) => pc' = "Checking"
       /\ pc' = "Checking" =>
             /\ ~should_timeout(strategy, elapsed', check_count' - 1)
             /\ now' - propagation_start' = elapsed' + interval'
             /\ strategy \in FixedPolicies =>
                   /\ elapsed' < FixedT(strategy)
                   /\ now' - propagation_start' < FixedT(strategy) + interval'
             /\ strategy = "Hybrid" => now' - propagation_start' < HybridTimeout + interval'
             /\ strategy = "Adaptive" => now' - propagation_start' < max_timeout + interval'
       /\ MatchInFlight =>
             /\ pc' = "Matched"
             /\ returned'[Len(returned')].success = TRUE
             /\ returned'[Len(returned')].propagation_time = now - propagation_start
       /\ strategy \in FixedPolicies =>
             check_count' <= CeilDiv(FixedT(strategy), FixedC(strategy))]_vars

\* Baseline: the 60th check happens at 180 s, matches and is a success
C35_Witness ==
    /\ pc = "Matched"
    /\ strategy = "Baseline"
    /\ check_count = CeilDiv(BaselineTimeout, BaselineInterval)
    /\ returned[1].success = TRUE
    /\ returned[1].propagation_time >= BaselineTimeout

---------------------------------------------------------------------------
(* The simulator's reference start (checked under Spec)                     *)

\* the interval slept before the first check of an iteration
FirstInterval(s) == calculate_next_interval(s, 0, 0)

---------------------------------------------------------------------------
(* Termination of the racer's poller (checked under SpecRacerLive)          *)

\* the poller has seen this much time since t0 at its loop test
TimeoutSeenSinceT0 ==
    /\ s_pc = "LoopTest"
    /\ s_start_time = r_t0
    /\ perf - r_t0 >= 600 * Ms

\* C37: every read and every sleep returning, the poller eventually returns
\* found = true or found = false; it returns found = false only after a loop
\* test at which the time since the shared start t0 has reached the timeout,
\* it starts no read once that test fails, and the row of the iteration is
\* recorded only after the PUT and the poller have both completed.
C37_PollerTerminates ==
    /\ <>(s_pc = "Returned" /\ s_result # <<>>)
    /\ [][/\ (Len(s_result') > Len(s_result) /\ ~s_result'[Len(s_result')].found)
               => TimeoutSeenSinceT0
          /\ get_calls' # get_calls
               => /\ s_pc = "LoopTest"
                  /\ perf - r_t0 < 600 * Ms
                  /\ s_attempt < LiveMaxChecks
          /\ TimeoutSeenSinceT0 => (get_calls' = get_calls /\ s_pc' \in {"LoopTest", "Returned"})
          /\ s_pc = "Returned" => get_calls' = get_calls
          /\ Len(r_stats') > Len(r_stats)
               => /\ r_pc = "Collected"
                  /\ s_pc = "Returned"
          /\ r_pc' = "Collected"
               => /\ r_pc \in {"Waiting", "Collected"}
                  /\ s_pc = "Returned"]_vars
    /\ [](s_pc = "LoopTest" /\ perf - s_start_time < 600 * Ms => s_attempt < LiveMaxChecks)

\* the poller gave up after several reads while the main thread waits for it
C37_Witness ==
    /\ r_pc = "Waiting"
    /\ s_pc = "Returned"
    /\ s_result[1].found = FALSE
    /\ s_result[1].attempts >= 3
    /\ perf - r_t0 >= 600 * Ms

====
